---- MODULE Spec2Model ----
(***************************************************************************)
(* ZeroCanvas: a shared whiteboard.  One authority node (the host) and     *)
(* participant nodes (clients) each run the useDrawing hook (capture,      *)
(* object store, remote replay, selection) and exchange DrawMessages over  *)
(* PeerJS data connections; the host relays, clients queue while offline.  *)
(*                                                                         *)
(* Coordinates are integers: one unit stands for one step of the           *)
(* normalised [0,1] surface grid.  A Point is <<x, y>>; pressure, colour   *)
(* and width play no part in the store and are left out of Point/Style.    *)
(* A nullable reference is a sequence of length 0 (null) or 1.             *)
(***************************************************************************)
EXTENDS Integers, Sequences, FiniteSets, TLC

\* ------------------------------------------------------------------ bounds
MaxX == 1          \* screen columns 0..MaxX offered to pointer events
MaxY == 0          \* screen rows    0..MaxY offered to pointer events
MaxPts == 2        \* points captured by one freehand gesture
MaxStore == 2      \* objects a node's store may hold before capture stops
MaxIds == 2        \* stroke ids one node's nextStrokeId hands out
MaxKnown == 3      \* objects a node may know before inbound inserts stop
MaxOps == 4        \* operations handed to one SyncService
MaxConns == 2      \* connections one participant makes to the host
MaxImages == 1     \* images one node pastes in a session
MaxDrawn == 1      \* strokes one node draws in a session
MaxScroll == 2     \* largest |deltaY| one scrollBy call is given
MaxOffset == 2     \* largest viewport offset a scrollBy call may reach
MaxTries == 6      \* connections one participant makes while reconnecting

\* ------------------------------------------------------------- data model
Tools == {"pen", "eraser", "pixel_eraser", "line", "rect", "select"}
Pointers == {1, 2}
NoPointer == 0
NoId == <<"", "", 0>>

SeqRange(s) == {s[i] : i \in 1..Len(s)}

MinOf(S) == CHOOSE v \in S : \A w \in S : v <= w
MaxOf(S) == CHOOSE v \in S : \A w \in S : v >= w

\* how many entries of sequence s equal v
Count(s, v) == Cardinality({i \in 1..Len(s) : s[i] = v})

\* the objects of a sequence, with multiplicity
BagOf(s) == [v \in SeqRange(s) |-> Count(s, v)]

StrokeObject(id, tool, pts) == [id |-> id, tool |-> tool, points |-> pts]
ImageObject(id, x, y, w, h) == [id |-> id, x |-> x, y |-> y, width |-> w, height |-> h]

\* ---------------------------------------------------------------- messages
StrokeStart(tool, point, id) == [type |-> "stroke_start", tool |-> tool, point |-> point, strokeId |-> id]
StrokeMove(pts) == [type |-> "stroke_move", points |-> pts]
StrokeEnd == [type |-> "stroke_end"]
StrokeDelete(id) == [type |-> "stroke_delete", strokeId |-> id]
ImageAdd(img) == [type |-> "image_add", image |-> img]
ImageDelete(id) == [type |-> "image_delete", imageId |-> id]
ObjectsMove(ids, dx, dy) == [type |-> "objects_move", objectIds |-> ids, deltaX |-> dx, deltaY |-> dy]
ClearMsg == [type |-> "clear"]
SnapshotRequest == [type |-> "snapshot_request"]
SnapshotMsg == [type |-> "snapshot"]
\* images is <<>> when the field is absent, <<list>> when present
SyncStrokes(strokes, images) == [type |-> "sync_strokes", strokes |-> strokes, images |-> images]

\* ---------------------------------------------------------------- geometry
getCanvasPoint(sx, sy, viewportOffsetY) == <<sx, sy + viewportOffsetY>>

BBox(minX, minY, maxX, maxY) == [minX |-> minX, minY |-> minY, maxX |-> maxX, maxY |-> maxY]

getStrokeBBox(s) ==
  LET xs == {s.points[i][1] : i \in 1..Len(s.points)}
      ys == {s.points[i][2] : i \in 1..Len(s.points)}
  IN BBox(MinOf(xs), MinOf(ys), MaxOf(xs), MaxOf(ys))

getImageBBox(img) == BBox(img.x, img.y, img.x + img.width, img.y + img.height)

bboxOverlap(a, b) ==
  a.minX <= b.maxX /\ a.maxX >= b.minX /\ a.minY <= b.maxY /\ a.maxY >= b.minY

pointInBBox(p, b) ==
  p[1] >= b.minX /\ p[1] <= b.maxX /\ p[2] >= b.minY /\ p[2] <= b.maxY

normalizeRect(x1, y1, x2, y2) ==
  BBox(IF x1 <= x2 THEN x1 ELSE x2, IF y1 <= y2 THEN y1 ELSE y2,
       IF x1 >= x2 THEN x1 ELSE x2, IF y1 >= y2 THEN y1 ELSE y2)

\* <<>> when no object of ids is stored, else <<bbox>>
combinedBBox(ids, strokes, images) ==
  LET bbs == {getStrokeBBox(strokes[i]) : i \in {j \in 1..Len(strokes) : strokes[j].id \in ids}}
             \cup {getImageBBox(images[i]) : i \in {j \in 1..Len(images) : images[j].id \in ids}}
  IN IF bbs = {} THEN <<>>
     ELSE <<BBox(MinOf({b.minX : b \in bbs}), MinOf({b.minY : b \in bbs}),
                 MaxOf({b.maxX : b \in bbs}), MaxOf({b.maxY : b \in bbs}))>>

translatePoints(pts, dx, dy) == [i \in 1..Len(pts) |-> <<pts[i][1] + dx, pts[i][2] + dy>>]
translateStroke(s, dx, dy) == [s EXCEPT !.points = translatePoints(@, dx, dy)]
translateImage(img, dx, dy) == [img EXCEPT !.x = @ + dx, !.y = @ + dy]

SelectSeq2(s, keep) ==
  LET F[i \in 0..Len(s)] ==
        IF i = 0 THEN <<>>
        ELSE IF keep[i] THEN Append(F[i - 1], s[i]) ELSE F[i - 1]
  IN F[Len(s)]

\* Array.prototype.filter by id membership
FilterIds(s, ids, want) == SelectSeq2(s, [i \in 1..Len(s) |-> (s[i].id \in ids) = want])

\* Array.prototype.findIndex by id; 0 stands for -1
findIndex(s, id) ==
  IF \E i \in 1..Len(s) : s[i].id = id
    THEN MinOf({i \in 1..Len(s) : s[i].id = id})
    ELSE 0

\* Array.prototype.splice(idx, 1)
splice1(s, idx) == [i \in 1..(Len(s) - 1) |-> IF i < idx THEN s[i] ELSE s[i + 1]]


\* ------------------------------------------------------------ hook state
\* One useDrawing instance: the refs of the hook, the module-level id
\* counters, and emit, the messages the current handler call has passed to
\* onStrokeMessage (emptied when a handler is entered).
HookInit(origin) ==
  [ origin |-> origin,
    tool |-> "pen",
    isDrawing |-> FALSE,
    currentPoints |-> <<>>,
    pendingBatch |-> <<>>,
    batchTimer |-> FALSE,
    shapeStart |-> <<>>,
    shapeEnd |-> <<>>,
    currentStrokeId |-> NoId,
    activePointerId |-> NoPointer,
    strokes |-> <<>>,
    remoteStroke |-> <<>>,
    images |-> <<>>,
    pendingImage |-> <<>>,
    selectPhase |-> "idle",
    selectStart |-> <<>>,
    selectEnd |-> <<>>,
    selectedIds |-> {},
    moveStart |-> <<>>,
    moveDelta |-> <<0, 0>>,
    movingStrokes |-> <<>>,
    movingImages |-> <<>>,
    viewportOffsetY |-> 0,
    eraserDeleted |-> {},
    strokeCounter |-> 0,
    imageCounter |-> 0,
    emit |-> <<>> ]

Enter(h) == [h EXCEPT !.emit = <<>>]
onStrokeMessage(h, m) == [h EXCEPT !.emit = Append(@, m)]

\* `s${Date.now()}-${++_strokeCounter}`: the id the next call returns; the
\* origin stands for the node's clock reading, the counter is kept in h.
nextStrokeId(h) == <<"s", h.origin, h.strokeCounter + 1>>
nextImageId(h) == <<"img", h.origin, h.imageCounter + 1>>

\* clearSelectionInternal that empties the moving buffers without putting
\* their objects back into the store
clearSelectionInternalDropping(h) ==
  [h EXCEPT !.movingStrokes = <<>>,
            !.movingImages = <<>>,
            !.selectedIds = {},
            !.selectPhase = "idle",
            !.selectStart = <<>>,
            !.selectEnd = <<>>,
            !.moveStart = <<>>,
            !.moveDelta = <<0, 0>>]

clearSelectionInternal(h) ==
  [h EXCEPT !.strokes = @ \o h.movingStrokes,
            !.movingStrokes = <<>>,
            !.images = @ \o h.movingImages,
            !.movingImages = <<>>,
            !.selectedIds = {},
            !.selectPhase = "idle",
            !.selectStart = <<>>,
            !.selectEnd = <<>>,
            !.moveStart = <<>>,
            !.moveDelta = <<0, 0>>]

setTool(h, tool) ==
  LET h1 == IF h.tool = "select" /\ tool # "select" THEN clearSelectionInternal(h) ELSE h
  IN [h1 EXCEPT !.tool = tool]

flushBatch(h) ==
  IF Len(h.pendingBatch) = 0 THEN h
  ELSE onStrokeMessage([h EXCEPT !.pendingBatch = <<>>], StrokeMove(h.pendingBatch))

\* --------------------------------------------------------------- eraser
HitThresholdSq == 1   \* square of the eraser's reach, in grid units

Sq(v) == v * v
DistSq(p, q) == Sq(p[1] - q[1]) + Sq(p[2] - q[2])

\* pointToSegmentDist(p, a, b) < threshold, in exact integer arithmetic
\* (the aspect factor is 1 on the model's square grid)
segmentWithin(p, a, b) ==
  LET dx == b[1] - a[1]
      dy == b[2] - a[2]
      lenSq == dx * dx + dy * dy
      dot == (p[1] - a[1]) * dx + (p[2] - a[2]) * dy
  IN IF lenSq = 0 THEN DistSq(p, a) < HitThresholdSq
     ELSE IF dot <= 0 THEN DistSq(p, a) < HitThresholdSq
     ELSE IF dot >= lenSq THEN DistSq(p, b) < HitThresholdSq
     ELSE DistSq(p, a) * lenSq - dot * dot < HitThresholdSq * lenSq

hitTestStroke(stroke, point) ==
  LET pts == stroke.points
  IN \/ \E i \in 1..(Len(pts) - 1) : segmentWithin(point, pts[i], pts[i + 1])
     \/ Len(pts) = 1 /\ DistSq(point, pts[1]) < HitThresholdSq

\* the strokes loop without the eraserDeletedRef test
RECURSIVE eraseStrokesAgain(_, _, _)
eraseStrokesAgain(h, point, i) ==
  IF i = 0 THEN h
  ELSE LET s == h.strokes[i]
       IN IF hitTestStroke(s, point)
            THEN eraseStrokesAgain(
                   onStrokeMessage([h EXCEPT !.eraserDeleted = @ \cup {s.id},
                                             !.strokes = splice1(@, i)],
                                   StrokeDelete(s.id)),
                   point, i - 1)
            ELSE eraseStrokesAgain(h, point, i - 1)

\* the backward loop over strokesRef of handleEraserMove, from index i down
RECURSIVE eraseStrokes(_, _, _)
eraseStrokes(h, point, i) ==
  IF i = 0 THEN h
  ELSE LET s == h.strokes[i]
       IN IF s.id \in h.eraserDeleted THEN eraseStrokes(h, point, i - 1)
          ELSE IF hitTestStroke(s, point)
            THEN eraseStrokes(
                   onStrokeMessage([h EXCEPT !.eraserDeleted = @ \cup {s.id},
                                             !.strokes = splice1(@, i)],
                                   StrokeDelete(s.id)),
                   point, i - 1)
            ELSE eraseStrokes(h, point, i - 1)

RECURSIVE eraseImages(_, _, _)
eraseImages(h, point, i) ==
  IF i = 0 THEN h
  ELSE LET img == h.images[i]
       IN IF img.id \in h.eraserDeleted THEN eraseImages(h, point, i - 1)
          ELSE IF pointInBBox(point, getImageBBox(img))
            THEN eraseImages(
                   onStrokeMessage([h EXCEPT !.eraserDeleted = @ \cup {img.id},
                                             !.images = splice1(@, i)],
                                   ImageDelete(img.id)),
                   point, i - 1)
            ELSE eraseImages(h, point, i - 1)

handleEraserMove(h, point) ==
  LET h1 == eraseStrokes(h, point, Len(h.strokes))
  IN eraseImages(h1, point, Len(h1.images))


\* ------------------------------------------------------- pointer handlers
\* handlePasteImage's onload: a pending image of size w x h, centred on the
\* viewport (its position is overwritten by the next pointer move)
handlePasteImage(h, w, hh) ==
  [h EXCEPT !.pendingImage = <<[id |-> nextImageId(h), width |-> w, height |-> hh,
                                x |-> 1 - w \div 2,
                                y |-> h.viewportOffsetY + 1 - hh \div 2]>>,
            !.imageCounter = @ + 1]

\* onPointerDown with a pending image: confirm the placement
placePendingImage(h, sx, sy) ==
  LET pending == h.pendingImage[1]
      wpX == sx
      wpY == sy + h.viewportOffsetY
      imageObj == ImageObject(pending.id, wpX - pending.width \div 2,
                              wpY - pending.height \div 2, pending.width, pending.height)
  IN onStrokeMessage([h EXCEPT !.images = Append(@, imageObj), !.pendingImage = <<>>],
                     ImageAdd(imageObj))

\* onPointerDown, select tool, phase 'selected', pointer inside the bbox
enterMoving(h, point) ==
  [h EXCEPT !.selectPhase = "moving",
            !.moveStart = <<point>>,
            !.moveDelta = <<0, 0>>,
            !.movingStrokes = FilterIds(h.strokes, h.selectedIds, TRUE),
            !.movingImages = FilterIds(h.images, h.selectedIds, TRUE),
            !.strokes = FilterIds(h.strokes, h.selectedIds, FALSE),
            !.images = FilterIds(h.images, h.selectedIds, FALSE)]

startSelecting(h, point) ==
  [h EXCEPT !.selectPhase = "selecting", !.selectStart = <<point>>, !.selectEnd = <<point>>]

onPointerDownSelect(h, point) ==
  IF h.selectPhase = "selected"
    THEN LET bbox == combinedBBox(h.selectedIds, h.strokes, h.images)
         IN IF bbox # <<>> /\ pointInBBox(point, bbox[1])
              THEN enterMoving(h, point)
              ELSE startSelecting(clearSelectionInternal(h), point)
    ELSE startSelecting(h, point)

\* onPointerDown, pen / pixel_eraser branch
onPointerDownFreehand(h, point) ==
  LET id == nextStrokeId(h)
  IN onStrokeMessage([h EXCEPT !.strokeCounter = @ + 1,
                               !.currentStrokeId = id,
                               !.currentPoints = <<point>>,
                               !.pendingBatch = <<point>>],
                     StrokeStart(h.tool, point, id))

onPointerDown(h0, pointerId, sx, sy) ==
  LET h == Enter(h0) IN
  IF h.pendingImage # <<>> THEN placePendingImage(h, sx, sy)
  ELSE IF h.activePointerId # NoPointer /\ h.isDrawing THEN h
  ELSE
    LET point == getCanvasPoint(sx, sy, h.viewportOffsetY)
        h1 == [h EXCEPT !.activePointerId = pointerId, !.isDrawing = TRUE]
    IN IF h.tool = "select" THEN onPointerDownSelect(h1, point)
       ELSE IF h.tool = "eraser"
         THEN handleEraserMove([h1 EXCEPT !.eraserDeleted = {}], point)
       ELSE IF h.tool \in {"line", "rect"}
         THEN [h1 EXCEPT !.shapeStart = <<point>>, !.shapeEnd = <<>>]
       ELSE onPointerDownFreehand(h1, point)

\* onPointerMove of pointer pointerId; coalesced is the list of screen
\* positions of getCoalescedEvents(), the event's own position is (sx, sy)
onPointerMove(h0, pointerId, sx, sy, coalesced) ==
  LET h == Enter(h0) IN
  IF h.pendingImage # <<>>
    THEN [h EXCEPT !.pendingImage[1].x = sx - h.pendingImage[1].width \div 2,
                   !.pendingImage[1].y = sy + h.viewportOffsetY - h.pendingImage[1].height \div 2]
  ELSE IF ~h.isDrawing THEN h
  ELSE IF pointerId # h.activePointerId THEN h
  ELSE
    LET point == getCanvasPoint(sx, sy, h.viewportOffsetY)
    IN IF h.tool = "select"
         THEN IF h.selectPhase = "selecting" THEN [h EXCEPT !.selectEnd = <<point>>]
              ELSE IF h.selectPhase = "moving" /\ h.moveStart # <<>>
                THEN [h EXCEPT !.moveDelta = <<point[1] - h.moveStart[1][1],
                                               point[2] - h.moveStart[1][2]>>]
              ELSE h
       ELSE IF h.tool = "eraser" THEN handleEraserMove(h, point)
       ELSE IF h.tool \in {"line", "rect"} THEN [h EXCEPT !.shapeEnd = <<point>>]
       ELSE
         LET pts == [i \in 1..Len(coalesced) |->
                       getCanvasPoint(coalesced[i][1], coalesced[i][2], h.viewportOffsetY)]
         IN [h EXCEPT !.currentPoints = @ \o pts,
                      !.pendingBatch = @ \o pts,
                      !.batchTimer = TRUE]

\* the 16 ms batch timer set by onPointerMove
batchTimerFired(h0) ==
  LET h == Enter(h0) IN flushBatch([h EXCEPT !.batchTimer = FALSE])

\* onPointerCancel that leaves the network batch and its timer pending
onPointerCancelKeepsBatch(h0) ==
  LET h == Enter(h0)
  IN [h EXCEPT !.activePointerId = NoPointer,
               !.isDrawing = FALSE,
               !.currentPoints = <<>>,
               !.shapeStart = <<>>,
               !.shapeEnd = <<>>,
               !.eraserDeleted = {}]

\* onPointerCancel that re-inserts the detached strokes where the drag had
\* taken them
onPointerCancelMoved(h0) ==
  LET h == Enter(h0)
      h1 == [h EXCEPT !.activePointerId = NoPointer,
                      !.isDrawing = FALSE,
                      !.currentPoints = <<>>,
                      !.pendingBatch = <<>>,
                      !.shapeStart = <<>>,
                      !.shapeEnd = <<>>,
                      !.eraserDeleted = {},
                      !.batchTimer = FALSE]
      dx == h1.moveDelta[1]
      dy == h1.moveDelta[2]
  IN IF h1.selectPhase = "selecting"
       THEN [h1 EXCEPT !.selectPhase = "idle", !.selectStart = <<>>, !.selectEnd = <<>>]
     ELSE IF h1.selectPhase = "moving"
       THEN [h1 EXCEPT !.strokes = @ \o [i \in 1..Len(h1.movingStrokes) |->
                                           translateStroke(h1.movingStrokes[i], dx, dy)],
                       !.images = @ \o [i \in 1..Len(h1.movingImages) |->
                                          translateImage(h1.movingImages[i], dx, dy)],
                       !.movingStrokes = <<>>,
                       !.movingImages = <<>>,
                       !.selectPhase = "idle",
                       !.selectedIds = {},
                       !.moveStart = <<>>,
                       !.moveDelta = <<0, 0>>]
     ELSE h1

onPointerCancel(h0) ==
  LET h == Enter(h0)
      h1 == [h EXCEPT !.activePointerId = NoPointer,
                      !.isDrawing = FALSE,
                      !.currentPoints = <<>>,
                      !.pendingBatch = <<>>,
                      !.shapeStart = <<>>,
                      !.shapeEnd = <<>>,
                      !.eraserDeleted = {},
                      !.batchTimer = FALSE]
  IN IF h1.selectPhase = "selecting"
       THEN [h1 EXCEPT !.selectPhase = "idle", !.selectStart = <<>>, !.selectEnd = <<>>]
     ELSE IF h1.selectPhase = "moving"
       THEN [h1 EXCEPT !.strokes = @ \o h1.movingStrokes,
                       !.images = @ \o h1.movingImages,
                       !.movingStrokes = <<>>,
                       !.movingImages = <<>>,
                       !.selectPhase = "idle",
                       !.selectedIds = {},
                       !.moveStart = <<>>,
                       !.moveDelta = <<0, 0>>]
     ELSE h1

\* onPointerUp, select tool, phase 'selecting': the marquee is released
releaseMarquee(h, point) ==
  LET h1 == [h EXCEPT !.selectEnd = <<point>>]
  IN IF h1.selectStart = <<>> THEN h1
     ELSE
       LET start == h1.selectStart[1]
           selRect == normalizeRect(start[1], start[2], point[1], point[2])
           ids == {h1.strokes[i].id : i \in {j \in 1..Len(h1.strokes) :
                       bboxOverlap(selRect, getStrokeBBox(h1.strokes[j]))}}
                  \cup {h1.images[i].id : i \in {j \in 1..Len(h1.images) :
                       bboxOverlap(selRect, getImageBBox(h1.images[j]))}}
       IN IF ids # {}
            THEN [h1 EXCEPT !.selectedIds = ids, !.selectPhase = "selected"]
            ELSE [h1 EXCEPT !.selectPhase = "idle", !.selectStart = <<>>, !.selectEnd = <<>>]

\* the objectIds of the objects_move message: Array.from(selectedIdsRef.current)
moveMessageIds(h) == h.selectedIds

\* onPointerUp, select tool, phase 'moving': the move is released
releaseMove(h) ==
  LET dx == h.moveDelta[1]
      dy == h.moveDelta[2]
      ids == moveMessageIds(h)
      moved == [i \in 1..Len(h.movingStrokes) |-> translateStroke(h.movingStrokes[i], dx, dy)]
      movedI == [i \in 1..Len(h.movingImages) |-> translateImage(h.movingImages[i], dx, dy)]
      h1 == [h EXCEPT !.strokes = @ \o moved,
                      !.images = @ \o movedI,
                      !.movingStrokes = <<>>,
                      !.movingImages = <<>>]
      h2 == onStrokeMessage(h1, ObjectsMove(ids, dx, dy))
  IN [h2 EXCEPT !.selectedIds = {},
                !.selectPhase = "idle",
                !.selectStart = <<>>,
                !.selectEnd = <<>>,
                !.moveStart = <<>>,
                !.moveDelta = <<0, 0>>]

\* the shape commit ending at the last previewed point instead of the
\* pointer-up point
commitShapeAtPreview(h, point) ==
  IF h.shapeStart = <<>> THEN h
  ELSE
    LET startPoint == h.shapeStart[1]
        endPoint == IF h.shapeEnd = <<>> THEN point ELSE h.shapeEnd[1]
        strokeId == nextStrokeId(h)
        stroke == StrokeObject(strokeId, h.tool, <<startPoint, endPoint>>)
        h1 == [h EXCEPT !.strokeCounter = @ + 1,
                        !.strokes = Append(@, stroke),
                        !.shapeStart = <<>>,
                        !.shapeEnd = <<>>]
    IN onStrokeMessage(
         onStrokeMessage(
           onStrokeMessage(h1, StrokeStart(h.tool, startPoint, strokeId)),
           StrokeMove(<<endPoint>>)),
         StrokeEnd)

\* the freehand commit built from the points still waiting in the network
\* batch instead of the accumulator
commitFreehandFromBatch(h) ==
  LET pts == h.pendingBatch
      h1 == flushBatch([h EXCEPT !.batchTimer = FALSE])
      h2 == IF Len(pts) >= 2
              THEN [h1 EXCEPT !.strokes = Append(@, StrokeObject(h1.currentStrokeId, h1.tool, pts))]
              ELSE h1
  IN onStrokeMessage([h2 EXCEPT !.currentPoints = <<>>], StrokeEnd)

\* onPointerUp, line / rect branch
commitShape(h, point) ==
  IF h.shapeStart = <<>> THEN h
  ELSE
    LET startPoint == h.shapeStart[1]
        strokeId == nextStrokeId(h)
        stroke == StrokeObject(strokeId, h.tool, <<startPoint, point>>)
        h1 == [h EXCEPT !.strokeCounter = @ + 1,
                        !.strokes = Append(@, stroke),
                        !.shapeStart = <<>>,
                        !.shapeEnd = <<>>]
    IN onStrokeMessage(
         onStrokeMessage(
           onStrokeMessage(h1, StrokeStart(h.tool, startPoint, strokeId)),
           StrokeMove(<<point>>)),
         StrokeEnd)

\* onPointerUp, pen / pixel_eraser branch
commitFreehand(h) ==
  LET h1 == flushBatch([h EXCEPT !.batchTimer = FALSE])
      pts == h1.currentPoints
      h2 == IF Len(pts) >= 2
              THEN [h1 EXCEPT !.strokes = Append(@, StrokeObject(h1.currentStrokeId, h1.tool, pts))]
              ELSE h1
  IN onStrokeMessage([h2 EXCEPT !.currentPoints = <<>>], StrokeEnd)

onPointerUp(h0, pointerId, sx, sy) ==
  LET h == Enter(h0) IN
  IF ~h.isDrawing THEN h
  ELSE IF pointerId # h.activePointerId THEN h
  ELSE
    LET h1 == [h EXCEPT !.isDrawing = FALSE, !.activePointerId = NoPointer]
        point == getCanvasPoint(sx, sy, h.viewportOffsetY)
    IN IF h.tool = "select"
         THEN IF h.selectPhase = "selecting" THEN releaseMarquee(h1, point)
              ELSE IF h.selectPhase = "moving" THEN releaseMove(h1)
              ELSE h1
       ELSE IF h.tool = "eraser" THEN [h1 EXCEPT !.eraserDeleted = {}]
       ELSE IF h.tool \in {"line", "rect"} THEN commitShape(h1, point)
       ELSE commitFreehand(h1)


\* ---------------------------------------------------------- remote replay
\* stroke_start that keeps the points of a buffer that is still open
applyStrokeStartKeeping(h, msg) ==
  LET fresh == msg.strokeId = NoId
      old == IF h.remoteStroke = <<>> THEN <<>> ELSE h.remoteStroke[1].points
  IN [h EXCEPT !.remoteStroke = <<[tool |-> msg.tool, points |-> Append(old, msg.point),
                                   strokeId |-> IF fresh THEN nextStrokeId(h) ELSE msg.strokeId]>>,
               !.strokeCounter = IF fresh THEN @ + 1 ELSE @]

applyStrokeStart(h, msg) ==
  LET fresh == msg.strokeId = NoId
  IN [h EXCEPT !.remoteStroke = <<[tool |-> msg.tool, points |-> <<msg.point>>,
                                   strokeId |-> IF fresh THEN nextStrokeId(h) ELSE msg.strokeId]>>,
               !.strokeCounter = IF fresh THEN @ + 1 ELSE @]

applyStrokeMove(h, msg) ==
  IF h.remoteStroke = <<>> THEN h
  ELSE [h EXCEPT !.remoteStroke[1].points = @ \o msg.points]

applyStrokeEnd(h) ==
  IF h.remoteStroke = <<>> THEN h
  ELSE LET remote == h.remoteStroke[1]
       IN [h EXCEPT !.strokes = Append(@, StrokeObject(remote.strokeId, remote.tool, remote.points)),
                    !.remoteStroke = <<>>]

\* stroke_delete without the idx !== -1 test: splice(-1, 1) drops the last
applyStrokeDeleteUnguarded(h, msg) ==
  LET idx == findIndex(h.strokes, msg.strokeId)
  IN IF idx # 0 THEN [h EXCEPT !.strokes = splice1(@, idx)]
     ELSE [h EXCEPT !.strokes = SubSeq(@, 1, Len(@) - 1)]

applyStrokeDelete(h, msg) ==
  LET idx == findIndex(h.strokes, msg.strokeId)
  IN IF idx # 0 THEN [h EXCEPT !.strokes = splice1(@, idx)] ELSE h

applyImageAdd(h, msg) == [h EXCEPT !.images = Append(@, msg.image)]

applyImageDelete(h, msg) ==
  LET idx == findIndex(h.images, msg.imageId)
  IN IF idx # 0 THEN [h EXCEPT !.images = splice1(@, idx)] ELSE h

\* objects_move that translates the named strokes and leaves the images
applyObjectsMoveStrokesOnly(h, msg) ==
  [h EXCEPT !.strokes = [i \in 1..Len(@) |->
                           IF @[i].id \in msg.objectIds
                             THEN translateStroke(@[i], msg.deltaX, msg.deltaY) ELSE @[i]]]

applyObjectsMove(h, msg) ==
  [h EXCEPT !.strokes = [i \in 1..Len(@) |->
                           IF @[i].id \in msg.objectIds
                             THEN translateStroke(@[i], msg.deltaX, msg.deltaY) ELSE @[i]],
            !.images = [i \in 1..Len(@) |->
                           IF @[i].id \in msg.objectIds
                             THEN translateImage(@[i], msg.deltaX, msg.deltaY) ELSE @[i]]]

applyClear(h) == [h EXCEPT !.strokes = <<>>, !.images = <<>>]

\* snapshot that empties the strokes and keeps the images
applySnapshotKeepsImages(h) == [h EXCEPT !.strokes = <<>>]

applySnapshot(h) == [h EXCEPT !.strokes = <<>>, !.images = <<>>]

\* sync_strokes that adds the transferred objects to the store it finds
applySyncStrokesMerged(h, msg) ==
  [h EXCEPT !.strokes = @ \o msg.strokes,
            !.images = IF msg.images = <<>> THEN @ ELSE @ \o msg.images[1]]

applySyncStrokes(h, msg) ==
  [h EXCEPT !.strokes = msg.strokes,
            !.images = IF msg.images = <<>> THEN <<>> ELSE msg.images[1]]

\* applyMessage's switch on msg.type; an unknown type falls to default
applyMessage(h, msg) ==
  CASE msg.type = "stroke_start" -> applyStrokeStart(h, msg)
    [] msg.type = "stroke_move" -> applyStrokeMove(h, msg)
    [] msg.type = "stroke_end" -> applyStrokeEnd(h)
    [] msg.type = "stroke_delete" -> applyStrokeDelete(h, msg)
    [] msg.type = "image_add" -> applyImageAdd(h, msg)
    [] msg.type = "image_delete" -> applyImageDelete(h, msg)
    [] msg.type = "objects_move" -> applyObjectsMove(h, msg)
    [] msg.type = "clear" -> applyClear(h)
    [] msg.type = "snapshot" -> applySnapshot(h)
    [] msg.type = "sync_strokes" -> applySyncStrokes(h, msg)
    [] OTHER -> h

RECURSIVE applyAll(_, _)
applyAll(h, msgs) ==
  IF msgs = <<>> THEN h ELSE applyAll(applyMessage(h, Head(msgs)), Tail(msgs))

\* ------------------------------------------------------- canvas operations
clearCanvas(h) ==
  clearSelectionInternal([h EXCEPT !.strokes = <<>>, !.images = <<>>])

\* scrollBy without Math.max(0, ...)
scrollByUnclamped(h, deltaY) == [h EXCEPT !.viewportOffsetY = @ + deltaY]

\* scrollBy clamping at one unit below the top instead of at the top
scrollByClampedLow(h, deltaY) ==
  [h EXCEPT !.viewportOffsetY = IF @ + deltaY >= 1 THEN @ + deltaY ELSE 1]

\* scrollBy that shifts the stored strokes instead of the viewport only
scrollByShifting(h, deltaY) ==
  [h EXCEPT !.viewportOffsetY = IF @ + deltaY >= 0 THEN @ + deltaY ELSE 0,
            !.strokes = [i \in 1..Len(@) |-> translateStroke(@[i], 0, 0 - deltaY)]]

scrollBy(h, deltaY) ==
  [h EXCEPT !.viewportOffsetY = IF @ + deltaY >= 0 THEN @ + deltaY ELSE 0]

getStrokes(h) == h.strokes
getImages(h) == h.images

cancelPendingAction(h) ==
  LET h1 == [h EXCEPT !.pendingImage = <<>>]
  IN IF h1.selectPhase # "idle" THEN clearSelectionInternal(h1) ELSE h1


\* ======================================================== sync coordinator
\* One SyncService instance; out is what the current call has passed to the
\* broadcast function (emptied when a method is entered).
SyncInit == [connected |-> FALSE, offlineQueue |-> <<>>, out |-> <<>>]

SyncEnter(s) == [s EXCEPT !.out = <<>>]
broadcast(s, msg) == [s EXCEPT !.out = Append(@, msg)]

RECURSIVE broadcastEach(_, _)
broadcastEach(s, queue) ==
  IF queue = <<>> THEN s ELSE broadcastEach(broadcast(s, Head(queue)), Tail(queue))

\* the flush with slice(0) for splice(0): the queue is sent and kept
flushOfflineQueueKept(s) == broadcastEach(s, s.offlineQueue)

\* const queue = this.offlineQueue.splice(0); queue.forEach(broadcast)
flushOfflineQueue(s) == broadcastEach([s EXCEPT !.offlineQueue = <<>>], s.offlineQueue)

setConnected(s0, connected) ==
  LET s == SyncEnter(s0)
      wasDisconnected == ~s.connected
      s1 == [s EXCEPT !.connected = connected]
  IN IF connected /\ wasDisconnected THEN flushOfflineQueue(s1) ELSE s1

sendDraw(s0, msg) ==
  LET s == SyncEnter(s0)
  IN IF s.connected THEN broadcast(s, msg)
     ELSE [s EXCEPT !.offlineQueue = Append(@, msg)]

\* ===================================================================== state
Host == "H"
Participants == {"P1", "P2"}
Nodes == {Host} \cup Participants

VARIABLES
  hooks,     \* [Nodes -> hook state]: each node's useDrawing instance
  sync,      \* [Nodes -> SyncService state]
  gesture,   \* observer: the local gesture in progress on P1
  selection, \* observer: the last marquee selection and move on P1
  pair,      \* observer: the last probe (two operations replayed in both
             \* orders, or one handler call with the hook before and after)
  sent,      \* observer: what P1's SyncService was given and handed on
  conns,     \* [Participants -> the DataConnections to the host, oldest first]
  peer,      \* [Participants -> usePeer (client role) and ClientBoard state]
  hostPeer,  \* usePeer (host role): connectionsRef and connectedClients
  handled    \* observer: the host's last handleMessage call

vars == <<hooks, sync, gesture, selection, pair, sent, conns, peer, hostPeer, handled>>
netVars == <<conns, peer, hostPeer, handled>>

\* ------------------------------------------------------------- observers
\* gesture: kind is the tool at pointer-down ("" when none is observed), pts
\* the world points the pointer events delivered, log the messages emitted
\* since the pointer-down, clean whether only this gesture's own events
\* occurred, done whether its pointer-up was handled.
GestureInit == [kind |-> "", pts |-> <<>>, log |-> <<>>, clean |-> FALSE, done |-> FALSE]

\* selection: rect and store at the last marquee release; quiet while only the
\* drag's own pointer events followed; down and delta the drag as the pointer
\* events gave it; lifted the objects in the moving buffers when the move
\* was released; moved is set by that release.
SelectionInit ==
  [rect |-> <<>>, strokes |-> <<>>, images |-> <<>>, quiet |-> FALSE,
   down |-> <<>>, delta |-> <<0, 0>>, lifted |-> <<>>, liftedImages |-> <<>>,
   moved |-> FALSE]

\* sent: issued the operations given to sendDraw, wire those handed to the
\* transport, leak whether one was handed on by a sendDraw made while
\* disconnected, flushed how many the last setConnected handed on, mark the
\* length of wire after that call.
SentInit == [issued |-> <<>>, wire |-> <<>>, leak |-> FALSE, flushed |-> 0, mark |-> 0]

\* a DataConnection: each end is pending, open or closed; up and down are the
\* messages in flight to the host and to the client
ConnInit == [clientEnd |-> "pending", hostEnd |-> "pending", up |-> <<>>, down |-> <<>>]

\* usePeer on a client: hostConn is an index into the node's connections (0:
\* null), retryTimer the delays of scheduleRetry's pending timeouts; prevState is
\* ClientBoard's prevStateRef, the connectionState its effects last ran with
PeerInit ==
  [hostConn |-> 0, retryCount |-> 0, retryTimer |-> <<>>,
   connectionState |-> "connecting", prevState |-> "idle", peerOpen |-> FALSE]

\* usePeer on the host: connections[p] is an index into p's connections (0: no
\* entry in the map)
HostPeerInit == [connections |-> [p \in Participants |-> 0], connectedClients |-> <<>>]

ScreenPts == (0..MaxX) \X (0..MaxY)
World == ((0 - 1)..(MaxX + 1)) \X ((0 - 1)..(MaxY + 1))

Me == "P1"
hook == hooks[Me]

StoreSize(h) == Len(h.strokes) + Len(h.images) + Len(h.movingStrokes) + Len(h.movingImages)

\* every stored coordinate lies on the surface grid
InWorld(h) ==
  /\ \A i \in 1..Len(h.strokes) : \A k \in 1..Len(h.strokes[i].points) :
       h.strokes[i].points[k] \in World
  /\ \A i \in 1..Len(h.images) : <<h.images[i].x, h.images[i].y>> \in World

FreehandTools == {"pen", "pixel_eraser"}

\* a pointer-down that onPointerDown does not ignore
DownTaken(h) == h.pendingImage = <<>> /\ ~(h.activePointerId # NoPointer /\ h.isDrawing)
\* a pointer-move / pointer-up that the handlers do not ignore
EventTaken(h, pid) == h.pendingImage = <<>> /\ h.isDrawing /\ pid = h.activePointerId

Watched(g) == g.kind # "" /\ ~g.done

\* the observer forgets a gesture at the first step after its end
Log(g, h2) == IF Watched(g) THEN [g EXCEPT !.log = @ \o h2.emit] ELSE GestureInit

GestureDown(h, h2, point) ==
  [kind |-> h.tool, pts |-> <<point>>, log |-> h2.emit, clean |-> TRUE, done |-> FALSE]

GestureMove(g, h, h2, point) ==
  IF Watched(g)
    THEN Log([g EXCEPT !.pts = IF h.tool \in FreehandTools THEN Append(@, point) ELSE @], h2)
    ELSE GestureInit

GestureUp(g, h2) == IF Watched(g) THEN [Log(g, h2) EXCEPT !.done = TRUE] ELSE GestureInit

Taint(g, h2) == IF Watched(g) THEN [Log(g, h2) EXCEPT !.clean = FALSE] ELSE GestureInit

\* the selection observer across one pointer handler call h -> h2
Observe(sel, h, h2, point) ==
  IF h.selectPhase = "selecting" /\ h2.selectPhase = "selected"
    THEN [SelectionInit EXCEPT
            !.rect = <<normalizeRect(h.selectStart[1][1], h.selectStart[1][2], point[1], point[2])>>,
            !.strokes = h.strokes, !.images = h.images, !.quiet = TRUE]
  ELSE IF h.selectPhase = "selected" /\ h2.selectPhase = "moving"
    THEN [sel EXCEPT !.down = <<point>>, !.delta = <<0, 0>>]
  ELSE IF h.selectPhase = "moving" /\ h2.selectPhase = "moving" /\ sel.down # <<>>
    THEN [sel EXCEPT !.delta = <<point[1] - sel.down[1][1], point[2] - sel.down[1][2]>>]
  ELSE IF h.selectPhase = "moving" /\ h2.selectPhase = "idle"
    THEN [sel EXCEPT !.moved = TRUE,
                     !.lifted = h.movingStrokes,
                     !.liftedImages = h.movingImages]
  ELSE SelectionInit

\* an event outside the drag: the observed selection is no longer quiet
Disturb(sel, h2) ==
  IF h2.selectPhase = "moving" /\ sel.down # <<>>
    THEN [sel EXCEPT !.quiet = FALSE]
    ELSE SelectionInit

\* ------------------------------------------------ one node: its actions
Init ==
  /\ hooks = [n \in Nodes |-> HookInit(n)]
  /\ sync = [n \in Nodes |-> SyncInit]
  /\ gesture = GestureInit
  /\ selection = SelectionInit
  /\ pair = <<>>
  /\ sent = SentInit
  /\ conns = [p \in Participants |-> <<>>]
  /\ peer = [p \in Participants |-> PeerInit]
  /\ hostPeer = HostPeerInit
  /\ handled = <<>>

\* a pointer-down on the canvas
PointerDown(pid, sp) ==
  /\ DownTaken(hook)
  /\ hook.tool = "select" \/ (StoreSize(hook) < MaxStore /\ hook.strokeCounter < MaxIds)
  /\ LET h2 == onPointerDown(hook, pid, sp[1], sp[2])
         point == getCanvasPoint(sp[1], sp[2], hook.viewportOffsetY)
     IN /\ hooks' = [hooks EXCEPT ![Me] = h2]
        /\ gesture' = GestureDown(hook, h2, point)
        /\ selection' = Observe(selection, hook, h2, point)
  /\ UNCHANGED <<sync, pair, sent, netVars>>

PointerMove(pid, sp) ==
  /\ EventTaken(hook, pid)
  /\ Len(hook.currentPoints) < MaxPts
  /\ LET h2 == onPointerMove(hook, pid, sp[1], sp[2], <<sp>>)
         point == getCanvasPoint(sp[1], sp[2], hook.viewportOffsetY)
     IN /\ hooks' = [hooks EXCEPT ![Me] = h2]
        /\ gesture' = GestureMove(gesture, hook, h2, point)
        /\ selection' = Observe(selection, hook, h2, point)
  /\ UNCHANGED <<sync, pair, sent, netVars>>

PointerUp(pid, sp) ==
  /\ EventTaken(hook, pid)
  /\ LET h2 == onPointerUp(hook, pid, sp[1], sp[2])
         point == getCanvasPoint(sp[1], sp[2], hook.viewportOffsetY)
     IN /\ InWorld(h2)
        /\ hooks' = [hooks EXCEPT ![Me] = h2]
        /\ gesture' = GestureUp(gesture, h2)
        /\ selection' = Observe(selection, hook, h2, point)
  /\ UNCHANGED <<sync, pair, sent, netVars>>

PointerCancel ==
  /\ hook.isDrawing
  /\ LET h2 == onPointerCancel(hook)
     IN /\ hooks' = [hooks EXCEPT ![Me] = h2]
        /\ gesture' = Taint(gesture, h2)
        /\ selection' = Disturb(selection, h2)
  /\ UNCHANGED <<sync, pair, sent, netVars>>

BatchTimer ==
  /\ hook.batchTimer
  /\ LET h2 == batchTimerFired(hook)
     IN /\ hooks' = [hooks EXCEPT ![Me] = h2]
        /\ gesture' = Log(gesture, h2)
        /\ selection' = Disturb(selection, h2)
  /\ UNCHANGED <<sync, pair, sent, netVars>>

SetTool(tool) ==
  /\ tool # hook.tool
  /\ LET h2 == setTool(Enter(hook), tool)
     IN /\ hooks' = [hooks EXCEPT ![Me] = h2]
        /\ gesture' = Taint(gesture, h2)
        /\ selection' = Disturb(selection, h2)
  /\ UNCHANGED <<sync, pair, sent, netVars>>

\* the document as this node knows it
KnownStrokes(h) == h.strokes \o h.movingStrokes
KnownIds(h) == {KnownStrokes(h)[i].id : i \in 1..Len(KnownStrokes(h))}
                 \cup {h.images[i].id : i \in 1..Len(h.images)}
                 \cup {h.movingImages[i].id : i \in 1..Len(h.movingImages)}

\* applyRef.current(msg): an inbound message is replayed
Deliver(msg) ==
  /\ LET h2 == applyMessage(Enter(hook), msg)
     IN /\ StoreSize(h2) <= MaxKnown
        /\ hooks' = [hooks EXCEPT ![Me] = h2]
        /\ gesture' = IF Watched(gesture) THEN gesture ELSE GestureInit
        /\ selection' = Disturb(selection, h2)
  /\ UNCHANGED <<sync, pair, sent, netVars>>

\* ---------------------------------------- specification: a drawing node
\* P1 draws with the pen and the line tool; a peer deletes strokes P1 has.
Next ==
  \/ \E sp \in ScreenPts : PointerDown(1, sp)
  \/ \E sp \in ScreenPts : PointerMove(1, sp)
  \/ \E sp \in ScreenPts : PointerUp(1, sp)
  \/ PointerCancel
  \/ BatchTimer
  \/ \E t \in {"pen", "line"} : SetTool(t)
  \/ \E id \in KnownIds(hook) : Deliver(StrokeDelete(id))

Spec == Init /\ [][Next]_vars

\* ------------------------------------------------- claims on a drawing node
\* the store a replica builds from a gesture's messages, starting empty
Replayed == applyAll(HookInit("replica"), gesture.log)

\* C2: round-trip fidelity.  When a freehand gesture that captured the points
\* P has ended undisturbed, replaying the messages it emitted, in order, on
\* an empty store yields exactly one stroke, whose id is the announced
\* strokeId and whose point sequence is P.
RoundTrip ==
  (gesture.done /\ gesture.clean /\ gesture.kind \in FreehandTools) =>
    /\ Len(Replayed.strokes) = 1
    /\ Replayed.strokes[1].id = gesture.log[1].strokeId
    /\ Replayed.strokes[1].points = gesture.pts

UniqueIds(h) ==
  LET all == [i \in 1..Len(h.strokes) |-> h.strokes[i].id]
             \o [i \in 1..Len(h.images) |-> h.images[i].id]
  IN \A i, j \in 1..Len(all) : all[i] = all[j] => i = j

\* C7: id uniqueness.  In every reachable state no two objects of the node's
\* store (strokes and images together) have the same id.
IdsUnique == UniqueIds(hook)

AbsentId == <<"s", "nobody", 0>>

Store(h) == <<h.strokes, h.images>>

\* C6: idempotent deletion.  In every reachable state, for the id of any
\* known object and for an absent id, applying stroke_delete (image_delete)
\* a second time leaves the store as the first application left it.
DeleteIdempotent ==
  \A id \in KnownIds(hook) \cup {AbsentId} :
    \A m \in {StrokeDelete(id), ImageDelete(id)} :
      LET once == applyMessage(hook, m)
      IN Store(applyMessage(once, m)) = Store(once)

\* ------------------------------------- specification: a selecting node
\* P1 receives the authority's document (two strokes, one at each end of the
\* surface), selects with the marquee and drags, while the authority's
\* transfers and a peer's deletions keep arriving.
StrokeA == StrokeObject(<<"s", Host, 1>>, "pen", <<<<0, 0>>, <<0, 0>>>>)
StrokeB == StrokeObject(<<"s", Host, 2>>, "pen", <<<<MaxX, MaxY>>, <<MaxX, MaxY>>>>)
Document == <<StrokeA, StrokeB>>

Selecting == hook.tool = "select"

NextSelect ==
  \/ \E t \in {"pen", "select"} : SetTool(t)
  \/ \E sp \in ScreenPts : Selecting /\ PointerDown(1, sp)
  \/ \E sp \in ScreenPts : Selecting /\ PointerMove(1, sp)
  \/ \E sp \in ScreenPts : Selecting /\ PointerUp(1, sp)
  \/ Selecting /\ PointerCancel
  \/ Deliver(SyncStrokes(Document, <<>>))
  \/ \E id \in KnownIds(hook) : Deliver(StrokeDelete(id))

SpecSelect == Init /\ [][NextSelect]_vars

\* the stored objects the marquee overlapped, moved by the drag; the others as
\* they were
Dragged(strokes, rect, d) ==
  [i \in 1..Len(strokes) |->
     IF bboxOverlap(rect, getStrokeBBox(strokes[i]))
       THEN translateStroke(strokes[i], d[1], d[2]) ELSE strokes[i]]

DraggedImages(images, rect, d) ==
  [i \in 1..Len(images) |->
     IF bboxOverlap(rect, getImageBBox(images[i]))
       THEN translateImage(images[i], d[1], d[2]) ELSE images[i]]

\* C9: selection/move correctness.  After a marquee selection followed, with
\* no other event in between, by a drag of (dx, dy), every stored object
\* whose bounding box overlapped the marquee has moved by exactly (dx, dy)
\* and every object disjoint from the marquee is where it was.
MoveCorrect ==
  (selection.moved /\ selection.quiet) =>
    /\ BagOf(hook.strokes) =
         BagOf(Dragged(selection.strokes, selection.rect[1], selection.delta))
    /\ BagOf(hook.images) =
         BagOf(DraggedImages(selection.images, selection.rect[1], selection.delta))

IdsOf(objs) == {objs[i].id : i \in 1..Len(objs)}

\* C10: a completed selection move emits exactly one objects_move message;
\* its objectIds are exactly the ids of the objects the move translated
\* locally, and its deltaX/deltaY is the delta applied to them.
MoveMessageExact ==
  selection.moved =>
    /\ Len(hook.emit) = 1
    /\ hook.emit[1].type = "objects_move"
    /\ hook.emit[1].objectIds = IdsOf(selection.lifted) \cup IdsOf(selection.liftedImages)
    /\ \A i \in 1..Len(selection.lifted) :
         translateStroke(selection.lifted[i], hook.emit[1].deltaX, hook.emit[1].deltaY)
           \in SeqRange(hook.strokes)
    /\ \A i \in 1..Len(selection.liftedImages) :
         translateImage(selection.liftedImages[i], hook.emit[1].deltaX, hook.emit[1].deltaY)
           \in SeqRange(hook.images)

\* ------------------------------- specification: replaying store operations
\* P1's store is built from operations of two senders, the authority and P2;
\* at any store two operations of different senders are replayed in both
\* orders.  An operation is the message sequence its sender puts on the wire.
InsertStroke(stroke) ==
  <<StrokeStart(stroke.tool, stroke.points[1], stroke.id),
    StrokeMove(Tail(stroke.points)), StrokeEnd>>

ImageI == ImageObject(<<"img", "P2", 1>>, 0, 0, 1, 1)

Operation(from, msgs) == [from |-> from, msgs |-> msgs]

Operations ==
  {Operation(Host, InsertStroke(StrokeA)),
   Operation(Host, <<ObjectsMove({StrokeA.id}, 1, 0)>>),
   Operation(Host, <<ImageDelete(ImageI.id)>>),
   Operation("P2", InsertStroke(StrokeB)),
   Operation("P2", <<ImageAdd(ImageI)>>),
   Operation("P2", <<StrokeDelete(StrokeA.id)>>),
   Operation("P2", <<StrokeDelete(StrokeB.id)>>),
   Operation("P2", <<ObjectsMove({StrokeB.id, ImageI.id}, 0 - 1, 0)>>)}

\* the object ids an operation names
NamedIds(op) ==
  LET m == op.msgs[1]
  IN CASE m.type = "stroke_start" -> {m.strokeId}
       [] m.type = "image_add" -> {m.image.id}
       [] m.type = "stroke_delete" -> {m.strokeId}
       [] m.type = "image_delete" -> {m.imageId}
       [] m.type = "objects_move" -> m.objectIds

ReplayOp(op) ==
  /\ LET h2 == applyAll(Enter(hook), op.msgs)
     IN /\ StoreSize(h2) <= MaxKnown
        /\ InWorld(h2)
        /\ hooks' = [hooks EXCEPT ![Me] = h2]
  /\ pair' = <<>>
  /\ UNCHANGED <<sync, gesture, selection, sent, netVars>>

ReplayBothOrders(a, b) ==
  /\ a.from # b.from
  /\ pair' = <<[a |-> a, b |-> b,
                ab |-> Store(applyAll(applyAll(hook, a.msgs), b.msgs)),
                ba |-> Store(applyAll(applyAll(hook, b.msgs), a.msgs))]>>
  /\ UNCHANGED <<hooks, sync, gesture, selection, sent, netVars>>

NextReplay ==
  \/ \E op \in Operations : ReplayOp(op)
  \/ \E a, b \in Operations : ReplayBothOrders(a, b)

SpecReplay == Init /\ [][NextReplay]_vars

SameObjects(s, t) == BagOf(s[1]) = BagOf(t[1]) /\ BagOf(s[2]) = BagOf(t[2])

\* C8 as stated: any two store operations of different senders, replayed on a
\* store in either order, leave the same objects with the same coordinates.
OrderIndependent ==
  pair # <<>> => SameObjects(pair[1].ab, pair[1].ba)

\* the object ids an operation inserts
InsertedIds(op) ==
  LET m == op.msgs[1]
  IN CASE m.type = "stroke_start" -> {m.strokeId}
       [] m.type = "image_add" -> {m.image.id}
       [] OTHER -> {}

\* C8 amended: two store operations of different senders, neither of which
\* inserts an object id that the other names, replayed on a store in either
\* order, leave the same objects with the same coordinates.
OrderIndependentSeen ==
  (/\ pair # <<>>
   /\ InsertedIds(pair[1].a) \cap NamedIds(pair[1].b) = {}
   /\ InsertedIds(pair[1].b) \cap NamedIds(pair[1].a) = {}) =>
    SameObjects(pair[1].ab, pair[1].ba)

\* a deletion and a translation of the same stored stroke, by different
\* senders, were replayed in both orders on a store holding that stroke and
\* another one, and the deletion took effect
OrderIndependentWitness ==
  /\ pair # <<>>
  /\ pair[1].a.msgs = <<StrokeDelete(StrokeA.id)>>
  /\ pair[1].b.msgs = <<ObjectsMove({StrokeA.id}, 1, 0)>>
  /\ StrokeA.id \in IdsOf(hook.strokes)
  /\ StrokeB.id \in IdsOf(hook.strokes)
  /\ pair[1].ab[1] # hook.strokes
  /\ StrokeB.id \in IdsOf(pair[1].ab[1])

\* ------------------------------------ specification: the sync coordinator
\* P1's SyncService is given operations while its connection comes and goes.
WireOps == {ClearMsg, StrokeEnd, StrokeDelete(StrokeA.id)}

SendDraw(msg) ==
  /\ Len(sent.issued) < MaxOps
  /\ LET s2 == sendDraw(sync[Me], msg)
     IN /\ sync' = [sync EXCEPT ![Me] = s2]
        /\ sent' = [sent EXCEPT !.issued = Append(@, msg),
                                !.wire = @ \o s2.out,
                                !.leak = @ \/ (~sync[Me].connected /\ s2.out # <<>>)]
  /\ UNCHANGED <<hooks, gesture, selection, pair, netVars>>

SetConnected(connected) ==
  /\ LET s2 == setConnected(sync[Me], connected)
     IN /\ sync' = [sync EXCEPT ![Me] = s2]
        /\ sent' = [sent EXCEPT !.wire = @ \o s2.out,
                                !.flushed = IF s2.out # <<>> THEN Len(s2.out) ELSE @,
                                !.mark = IF s2.out # <<>> THEN Len(sent.wire) + Len(s2.out) ELSE @]
  /\ UNCHANGED <<hooks, gesture, selection, pair, netVars>>

NextSync ==
  \/ \E msg \in WireOps : SendDraw(msg)
  \/ \E connected \in BOOLEAN : SetConnected(connected)

SpecSync == Init /\ [][NextSync]_vars

\* C5: offline ordering.  No operation given to sendDraw while disconnected
\* is handed to the transport by that call; the operations handed on so far,
\* followed by those still queued, are the operations given, in the order
\* given and once each; once connected nothing is left queued, so the queued
\* operations went out before any later one and are not sent again.
OfflineOrder ==
  /\ ~sent.leak
  /\ sent.wire \o sync[Me].offlineQueue = sent.issued
  /\ sync[Me].connected => sync[Me].offlineQueue = <<>>

\* two or more queued operations were flushed by a reconnection, a later
\* operation followed them, and the node went offline and online again
OfflineOrderWitness ==
  /\ sent.flushed >= 2
  /\ Len(sent.wire) > sent.mark
  /\ sync[Me].connected
  /\ sync[Me].out = <<>>

\* ============================================================ the network
MAX_RETRIES == 5
RETRY_BASE_MS == 1000

Linked(p) ==
  /\ peer[p].hostConn # 0
  /\ peer[p].connectionState = "connected"
  /\ conns[p][peer[p].hostConn].clientEnd = "open"
  /\ conns[p][peer[p].hostConn].hostEnd = "open"

\* send on a connection towards the host: lost once the host's end is closed
sendUp(cs, c, msgs) ==
  [cs EXCEPT ![c].up = IF cs[c].hostEnd = "closed" THEN @ ELSE @ \o msgs]

\* usePeer, client role: broadcastMessage / sendMessage of each of msgs,
\* hostConnRef.current?.send(msg)
clientBroadcast(p, msgs) ==
  IF peer[p].hostConn = 0 THEN conns[p] ELSE sendUp(conns[p], peer[p].hostConn, msgs)

\* sendDraw of each of msgs in turn; out collects what was passed to broadcast
RECURSIVE sendDrawEach(_, _, _)
sendDrawEach(s, msgs, out) ==
  IF msgs = <<>> THEN [s EXCEPT !.out = out]
  ELSE LET s1 == sendDraw(s, Head(msgs))
       IN sendDrawEach(s1, Tail(msgs), out \o s1.out)

\* usePeer, host role: sendMessage(msg, targetPeerId) on w, the connections
\* and the record of conn.send calls made by the current handler
sendMessage(w, msg, targetPeerId) ==
  LET c == hostPeer.connections[targetPeerId]
  IN IF c = 0 THEN w
     ELSE [conns |-> [w.conns EXCEPT ![targetPeerId][c].down =
                        IF w.conns[targetPeerId][c].clientEnd = "closed"
                          THEN @ ELSE Append(@, msg)],
           sends |-> Append(w.sends, [to |-> targetPeerId, msg |-> msg])]

\* SyncService.relayToOthers(msg, excludePeerId, allPeerIds): send() to every
\* listed peer other than the sender, one by one
RECURSIVE relayToOthers(_, _, _, _)
relayToOthers(w, msg, excludePeerId, allPeerIds) ==
  IF allPeerIds = <<>> THEN w
  ELSE LET id == Head(allPeerIds)
           w1 == IF id # excludePeerId THEN sendMessage(w, msg, id) ELSE w
       IN relayToOthers(w1, msg, excludePeerId, Tail(allPeerIds))

\* raw data as a connection may deliver it: null, a value that is no object,
\* an object without a type property, an object of an unknown kind; every
\* DrawMessage is an object with its type
NullDatum == [js |-> "null"]
NumberDatum == [js |-> "number"]
BareObject == [js |-> "object"]
UnknownKind == [type |-> "ping"]
Noise == {NullDatum, NumberDatum, BareObject, UnknownKind}

\* SyncService.parse(raw): the message, or nothing (null)
parse(raw) ==
  IF "js" \in DOMAIN raw /\ raw.js # "object" THEN <<>>
  ELSE IF "type" \notin DOMAIN raw THEN <<>>
  ELSE <<raw>>

\* applyMessage's switch (msg.type) on any datum: reading a property of null
\* throws a TypeError, a missing property reads as undefined and falls to the
\* default case.  The hook after the call and whether the call threw.
applyDatum(h, raw) ==
  IF raw = NullDatum THEN [hook |-> h, threw |-> TRUE]
  ELSE IF "type" \notin DOMAIN raw THEN [hook |-> h, threw |-> FALSE]
  ELSE [hook |-> applyMessage(h, raw), threw |-> FALSE]

\* HostBoard.handleMessage(msg, fromPeerId): the host's hook and the sends
handleMessage(msg, fromPeerId) ==
  LET w == [conns |-> conns, sends |-> <<>>]
      h == Enter(hooks[Host])
  IN IF parse(msg) = <<>> THEN [hook |-> hooks[Host], w |-> w]
     ELSE IF msg.type = "snapshot_request"
       THEN [hook |-> hooks[Host],
             w |-> sendMessage(w, SyncStrokes(getStrokes(h), <<>>), fromPeerId)]
       ELSE [hook |-> applyMessage(h, msg),
             w |-> relayToOthers(w, msg, fromPeerId, hostPeer.connectedClients)]

\* ---------------------------------------------------------- network actions
\* peer.on('open') on a client: connect to the host
PeerOpen(p) ==
  /\ ~peer[p].peerOpen
  /\ peer' = [peer EXCEPT ![p].peerOpen = TRUE]
  /\ conns' = [conns EXCEPT ![p] = Append(@, ConnInit)]
  /\ handled' = <<>>
  /\ UNCHANGED <<hooks, sync, hostPeer, gesture, selection, pair, sent>>

\* conn.on('open') on the client
ClientOpen(p, c) ==
  /\ conns[p][c].clientEnd = "pending"
  /\ conns' = [conns EXCEPT ![p][c].clientEnd = "open"]
  /\ peer' = [peer EXCEPT ![p].hostConn = c, ![p].retryCount = 0,
                         ![p].connectionState = "connected"]
  /\ handled' = <<>>
  /\ UNCHANGED <<hooks, sync, hostPeer, gesture, selection, pair, sent>>

\* conn.on('open') on the host
HostOpen(p, c) ==
  /\ conns[p][c].hostEnd = "pending"
  /\ conns' = [conns EXCEPT ![p][c].hostEnd = "open"]
  /\ hostPeer' = [connections |-> [hostPeer.connections EXCEPT ![p] = c],
                  connectedClients |-> Append(hostPeer.connectedClients, p)]
  /\ handled' = <<>>
  /\ UNCHANGED <<hooks, sync, peer, gesture, selection, pair, sent>>

\* scheduleRetry without the retryCountRef.current >= MAX_RETRIES test
scheduleRetryUnbounded(pr) ==
  [pr EXCEPT !.retryCount = @ + 1,
             !.retryTimer = Append(@, RETRY_BASE_MS * 2^pr.retryCount)]

\* scheduleRetry()
scheduleRetry(pr) ==
  IF pr.retryCount >= MAX_RETRIES THEN pr
  ELSE [pr EXCEPT !.retryCount = @ + 1,
                  !.retryTimer = Append(@, RETRY_BASE_MS * 2^pr.retryCount)]

\* conn.on('close') on the client; what was in flight to it is lost
ClientClose(p, c) ==
  /\ conns[p][c].clientEnd = "open"
  /\ conns' = [conns EXCEPT ![p][c].clientEnd = "closed", ![p][c].down = <<>>]
  /\ peer' = [peer EXCEPT ![p] = scheduleRetry([@ EXCEPT !.hostConn = 0,
                                                        !.connectionState = "disconnected"])]
  /\ handled' = <<>>
  /\ UNCHANGED <<hooks, sync, hostPeer, gesture, selection, pair, sent>>

\* conn.on('close') on the host; what was in flight to it is lost
HostClose(p, c) ==
  /\ conns[p][c].hostEnd = "open"
  /\ conns' = [conns EXCEPT ![p][c].hostEnd = "closed", ![p][c].up = <<>>]
  /\ hostPeer' = [connections |-> [hostPeer.connections EXCEPT ![p] = 0],
                  connectedClients |-> SelectSeq(hostPeer.connectedClients, LAMBDA id : id # p)]
  /\ handled' = <<>>
  /\ UNCHANGED <<hooks, sync, peer, gesture, selection, pair, sent>>

\* one of the timeouts of scheduleRetry fires: a new connection is made, the
\* limit-th of the participant at most
RetryWithin(p, limit) ==
  /\ Len(conns[p]) < limit
  /\ \E i \in 1..Len(peer[p].retryTimer) :
       peer' = [peer EXCEPT ![p].retryTimer = splice1(@, i), ![p].connectionState = "connecting"]
  /\ conns' = [conns EXCEPT ![p] = Append(@, ConnInit)]
  /\ handled' = <<>>
  /\ UNCHANGED <<hooks, sync, hostPeer, gesture, selection, pair, sent>>

RetryFire(p) == RetryWithin(p, MaxConns)

\* ClientBoard renders with a new connectionState: the setConnected effect,
\* then the snapshot_request effect
ClientRender(p) ==
  /\ peer[p].connectionState # peer[p].prevState
  /\ LET now == peer[p].connectionState
         s2 == setConnected(sync[p], now = "connected")
         request == IF peer[p].prevState # "connected" /\ now = "connected"
                      THEN <<SnapshotRequest>> ELSE <<>>
     IN /\ sync' = [sync EXCEPT ![p] = s2]
        /\ conns' = [conns EXCEPT ![p] = clientBroadcast(p, s2.out \o request)]
        /\ peer' = [peer EXCEPT ![p].prevState = now]
  /\ handled' = <<>>
  /\ UNCHANGED <<hooks, hostPeer, gesture, selection, pair, sent>>

\* conn.on('data') on the host
HostReceive(p, c) ==
  /\ conns[p][c].hostEnd = "open"
  /\ conns[p][c].up # <<>>
  /\ LET msg == Head(conns[p][c].up)
         r == handleMessage(msg, p)
     IN /\ hooks' = [hooks EXCEPT ![Host] = r.hook]
        /\ conns' = [r.w.conns EXCEPT ![p][c].up = Tail(@)]
        /\ handled' = <<[from |-> p, msg |-> msg, before |-> hooks[Host],
                         linked |-> {q \in Participants : Linked(q)},
                         sends |-> r.w.sends]>>
  /\ UNCHANGED <<sync, peer, hostPeer, gesture, selection, pair, sent>>

\* conn.on('data') on a client: applyRef.current(msg)
ClientReceive(p, c) ==
  /\ conns[p][c].clientEnd = "open"
  /\ conns[p][c].down # <<>>
  /\ hooks' = [hooks EXCEPT ![p] = applyMessage(Enter(@), Head(conns[p][c].down))]
  /\ conns' = [conns EXCEPT ![p][c].down = Tail(@)]
  /\ handled' = <<>>
  /\ UNCHANGED <<sync, peer, hostPeer, gesture, selection, pair, sent>>

\* P1's canvas handled an event: what it emitted goes to sendDraw
Capture(h2) ==
  LET s2 == sendDrawEach(sync[Me], h2.emit, <<>>)
  IN /\ hooks' = [hooks EXCEPT ![Me] = h2]
     /\ sync' = [sync EXCEPT ![Me] = s2]
     /\ conns' = [conns EXCEPT ![Me] = clientBroadcast(Me, s2.out)]
     /\ handled' = <<>>
     /\ UNCHANGED <<peer, hostPeer, gesture, selection, pair, sent>>

PasteImage ==
  /\ hook.pendingImage = <<>>
  /\ ~hook.isDrawing
  /\ hook.imageCounter < MaxImages
  /\ Capture(handlePasteImage(Enter(hook), 1, 1))

DrawDown(sp) ==
  /\ \/ hook.pendingImage # <<>>
     \/ DownTaken(hook) /\ hook.strokeCounter < MaxDrawn
  /\ Capture(onPointerDown(hook, 1, sp[1], sp[2]))

DrawMove(sp) ==
  /\ hook.pendingImage # <<>> \/ EventTaken(hook, 1)
  /\ Len(hook.currentPoints) < MaxPts
  /\ Capture(onPointerMove(hook, 1, sp[1], sp[2], <<sp>>))

DrawUp(sp) ==
  /\ EventTaken(hook, 1)
  /\ Capture(onPointerUp(hook, 1, sp[1], sp[2]))

DrawBatchTimer ==
  /\ hook.batchTimer
  /\ Capture(batchTimerFired(hook))

\* --------------------------------------------- specification: the session
\* P1 draws one stroke from the surface's origin; P2's link fails and is
\* retried.
Flaky == {"P2"}
Origin == <<0, 0>>

NextNet ==
  \/ \E p \in Participants : PeerOpen(p)
  \/ \E p \in Participants : \E c \in 1..Len(conns[p]) : ClientOpen(p, c)
  \/ \E p \in Participants : \E c \in 1..Len(conns[p]) : HostOpen(p, c)
  \/ \E p \in Flaky : \E c \in 1..Len(conns[p]) : ClientClose(p, c)
  \/ \E p \in Flaky : \E c \in 1..Len(conns[p]) : HostClose(p, c)
  \/ \E p \in Participants : RetryFire(p)
  \/ \E p \in Participants : ClientRender(p)
  \/ \E p \in Participants : \E c \in 1..Len(conns[p]) : HostReceive(p, c)
  \/ \E p \in Participants : \E c \in 1..Len(conns[p]) : ClientReceive(p, c)
  \/ DrawDown(Origin)
  \/ \E sp \in ScreenPts : DrawMove(sp)
  \/ \E sp \in ScreenPts : DrawUp(sp)
  \/ DrawBatchTimer

SpecNet == Init /\ [][NextNet]_vars

\* ------------------------------------------------ specification: joining
\* P1 pastes an image and places it; the participants join when they join.
NextJoin ==
  \/ \E p \in Participants : PeerOpen(p)
  \/ \E p \in Participants : \E c \in 1..Len(conns[p]) : ClientOpen(p, c)
  \/ \E p \in Participants : \E c \in 1..Len(conns[p]) : HostOpen(p, c)
  \/ \E p \in Participants : ClientRender(p)
  \/ \E p \in Participants : \E c \in 1..Len(conns[p]) : HostReceive(p, c)
  \/ \E p \in Participants : \E c \in 1..Len(conns[p]) : ClientReceive(p, c)
  \/ PasteImage
  \/ \E sp \in ScreenPts : hook.pendingImage # <<>> /\ DrawDown(sp)
  \/ \E sp \in ScreenPts : hook.pendingImage # <<>> /\ DrawMove(sp)

SpecJoin == Init /\ [][NextJoin]_vars

\* -------------------------------------------------- claims on the session
\* every gesture has ended, every effect has run, nothing is in flight and
\* nothing is queued on a connected node
Quiescent ==
  /\ \A n \in Nodes : ~hooks[n].isDrawing /\ ~hooks[n].batchTimer /\ hooks[n].pendingImage = <<>>
  /\ \A p \in Participants :
       /\ peer[p].connectionState = peer[p].prevState
       /\ \A c \in 1..Len(conns[p]) : conns[p][c].up = <<>> /\ conns[p][c].down = <<>>
       /\ Linked(p) => sync[p].offlineQueue = <<>>

\* C1: convergence.  Once every gesture has ended and every sent message has
\* been delivered, the store of every connected participant holds the same
\* objects (ids and coordinates) as the authority's store.
Converged ==
  Quiescent =>
    \A p \in Participants : Linked(p) => SameObjects(Store(hooks[p]), Store(hooks[Host]))

SendsTo(r, q) == Cardinality({i \in 1..Len(r.sends) : r.sends[i].to = q})

\* C4: authority relay.  When the authority has handled an operation from
\* participant P, it has applied it to its own store and has sent that same
\* message, unchanged, exactly once to every other participant connected at
\* that moment, at most once to any other, and never to P.
RelayExact ==
  (handled # <<>> /\ handled[1].msg.type # "snapshot_request") =>
    LET r == handled[1]
    IN /\ hooks[Host] = applyMessage(Enter(r.before), r.msg)
       /\ \A i \in 1..Len(r.sends) : r.sends[i].msg = r.msg /\ r.sends[i].to # r.from
       /\ \A q \in Participants \ {r.from} :
            /\ SendsTo(r, q) <= 1
            /\ q \in r.linked => SendsTo(r, q) = 1

\* C3: late-join catch-up.  When the authority has handled a
\* snapshot_request, it has sent the requester one sync_strokes transfer, and
\* the requester's store after applying it (strokes and images) equals the
\* authority's store at the time of the reply.
JoinCatchUp ==
  (handled # <<>> /\ handled[1].msg.type = "snapshot_request") =>
    LET r == handled[1]
    IN /\ Len(r.sends) = 1
       /\ r.sends[1].to = r.from
       /\ r.sends[1].msg.type = "sync_strokes"
       /\ SameObjects(Store(applyMessage(hooks[r.from], r.sends[1].msg)), Store(r.before))

\* ============================================== one node, handler by handler
\* Every handler call on P1 is a step, taken or ignored by the handler; pair
\* holds the last call: op its name, arg its argument (the pointer id, the
\* delta, the tool), at the canvas point of a pointer event, before and after
\* the hook around the call.
Step(op, arg, at, h2) ==
  /\ hooks' = [hooks EXCEPT ![Me] = h2]
  /\ pair' = <<[op |-> op, arg |-> arg, at |-> at, before |-> Enter(hook), after |-> h2]>>
  /\ UNCHANGED <<sync, selection, sent, netVars>>

Stepped(op) == pair # <<>> /\ pair[1].op = op

\* a gesture is active: after an accepted pointer-down, before its pointer-up
\* or cancel
GestureActive(h) == h.isDrawing /\ h.activePointerId # NoPointer

\* onPointerDown of pointer pid at screen position sp
EvDown(pid, sp) ==
  /\ \/ ~DownTaken(hook)
     \/ hook.tool \in {"select", "eraser"}
     \/ StoreSize(hook) < MaxStore /\ hook.strokeCounter < MaxIds
  /\ LET h2 == onPointerDown(hook, pid, sp[1], sp[2])
         point == getCanvasPoint(sp[1], sp[2], hook.viewportOffsetY)
     IN /\ StoreSize(h2) <= MaxKnown
        /\ Step("onPointerDown", pid, <<point>>, h2)
        /\ gesture' = IF DownTaken(hook) THEN GestureDown(hook, h2, point)
                                         ELSE Log(gesture, h2)

EvMove(pid, sp) ==
  /\ Len(hook.currentPoints) < MaxPts
  /\ LET h2 == onPointerMove(hook, pid, sp[1], sp[2], <<sp>>)
         point == getCanvasPoint(sp[1], sp[2], hook.viewportOffsetY)
     IN /\ Step("onPointerMove", pid, <<point>>, h2)
        /\ gesture' = IF EventTaken(hook, pid) THEN GestureMove(gesture, hook, h2, point)
                                               ELSE Log(gesture, h2)

EvUp(pid, sp) ==
  /\ LET h2 == onPointerUp(hook, pid, sp[1], sp[2])
         point == getCanvasPoint(sp[1], sp[2], hook.viewportOffsetY)
     IN /\ Step("onPointerUp", pid, <<point>>, h2)
        /\ gesture' = IF hook.isDrawing /\ pid = hook.activePointerId
                        THEN GestureUp(gesture, h2) ELSE Log(gesture, h2)

\* the observer after a cancel: pts the points the cancel discarded, log the
\* messages emitted by the cancel and since
GestureCancelled(h, h2) ==
  [kind |-> "cancelled", pts |-> h.currentPoints, log |-> h2.emit, clean |-> TRUE, done |-> FALSE]

EvCancel ==
  /\ LET h2 == onPointerCancel(hook)
     IN /\ Step("onPointerCancel", 0, <<>>, h2)
        /\ gesture' = GestureCancelled(hook, h2)

EvTimer ==
  /\ hook.batchTimer
  /\ LET h2 == batchTimerFired(hook)
     IN /\ Step("flushBatch", 0, <<>>, h2)
        /\ gesture' = Log(gesture, h2)

EvTool(tool) ==
  /\ tool # hook.tool
  /\ LET h2 == setTool(Enter(hook), tool)
     IN /\ Step("setTool", tool, <<>>, h2)
        /\ gesture' = Taint(gesture, h2)

EvPaste ==
  /\ hook.pendingImage = <<>>
  /\ hook.imageCounter < MaxImages
  /\ LET h2 == handlePasteImage(Enter(hook), 1, 1)
     IN /\ Step("handlePasteImage", 0, <<>>, h2)
        /\ gesture' = Taint(gesture, h2)

EvScroll(deltaY) ==
  /\ hook.viewportOffsetY + deltaY <= MaxOffset
  /\ LET h2 == scrollBy(Enter(hook), deltaY)
     IN /\ Step("scrollBy", deltaY, <<>>, h2)
        /\ gesture' = IF Watched(gesture) THEN gesture ELSE GestureInit

EvDeliver(msg) ==
  /\ LET h2 == applyMessage(Enter(hook), msg)
     IN /\ StoreSize(h2) <= MaxKnown
        /\ Step("applyMessage", msg, <<>>, h2)
        /\ gesture' = IF Watched(gesture) THEN gesture ELSE GestureInit

\* ----------------------------------------- specification: the viewport
\* P1 draws with the pen while the wheel scrolls the surface up and down.
Deltas == (0 - MaxScroll)..MaxScroll

NextScroll ==
  \/ \E d \in Deltas : EvScroll(d)
  \/ \E sp \in ScreenPts : EvDown(1, sp)
  \/ \E sp \in ScreenPts : EvMove(1, sp)
  \/ \E sp \in ScreenPts : EvUp(1, sp)
  \/ EvTimer

SpecScroll == Init /\ [][NextScroll]_vars

\* C11: viewport clamp.  After any sequence of scrollBy calls with positive
\* or negative deltas the viewport offset is never negative.
OffsetNeverNegative == hook.viewportOffsetY >= 0

\* a scrollBy call took the viewport from below the top further up than the
\* top, and the offset stopped at 0
OffsetClampedWitness ==
  /\ Stepped("scrollBy")
  /\ pair[1].before.viewportOffsetY > 0
  /\ pair[1].before.viewportOffsetY + pair[1].arg < 0
  /\ hook.viewportOffsetY = 0

\* C12 as stated: from any offset above 0, scrollBy(d) followed by
\* scrollBy(-d) restores exactly the previous offset, for every d.
ScrollReversible ==
  (Stepped("scrollBy") /\ pair[1].before.viewportOffsetY > 0) =>
    scrollBy(hook, 0 - pair[1].arg).viewportOffsetY = pair[1].before.viewportOffsetY

\* C12 amended: from any offset above 0, scrollBy(d) followed by scrollBy(-d)
\* restores exactly the previous offset, for every d that does not take the
\* offset below 0 (offset + d >= 0).
ScrollReversibleWithinClamp ==
  (/\ Stepped("scrollBy")
   /\ pair[1].before.viewportOffsetY > 0
   /\ pair[1].before.viewportOffsetY + pair[1].arg >= 0) =>
    scrollBy(hook, 0 - pair[1].arg).viewportOffsetY = pair[1].before.viewportOffsetY

\* a scrollBy call took the viewport from below the top exactly to the top
ScrollReversibleWitness ==
  /\ Stepped("scrollBy")
  /\ pair[1].before.viewportOffsetY > 0
  /\ pair[1].arg < 0
  /\ pair[1].before.viewportOffsetY + pair[1].arg = 0
  /\ hook.viewportOffsetY = 0

\* C13: scrolling is read-only for the document.  A scrollBy call changes
\* nothing of the hook but the viewport offset: no stored object, no capture
\* or selection state, and it emits no message.
ScrollReadOnly ==
  Stepped("scrollBy") =>
    /\ [hook EXCEPT !.viewportOffsetY = pair[1].before.viewportOffsetY] = pair[1].before
    /\ hook.emit = <<>>

\* a scrollBy call moved the viewport while a stroke was stored and another
\* was being captured
ScrollReadOnlyWitness ==
  /\ Stepped("scrollBy")
  /\ hook.viewportOffsetY # pair[1].before.viewportOffsetY
  /\ hook.strokes # <<>>
  /\ hook.isDrawing
  /\ Len(hook.currentPoints) >= 2

\* --------------------- specification: a transfer and a stray deletion
\* A store built by operations of the host and P2 receives the authority's
\* transfer of strokes A and B and a deletion naming an id no node holds.
StrayId == <<"s", "P2", 1>>
Transfer == Operation(Host, <<SyncStrokes(Document, <<>>)>>)
StrayDelete == Operation("P2", <<StrokeDelete(StrayId)>>)

NextLateJoin ==
  \/ \E op \in Operations : ReplayOp(op)
  \/ ReplayBothOrders(Transfer, StrayDelete)
  \/ ReplayBothOrders(StrayDelete, Transfer)

SpecLateJoin == Init /\ [][NextLateJoin]_vars

\* C14: late-join order independence.  sync_strokes{[S1,S2]} and a
\* stroke_delete of a third id that is present nowhere, applied to any store
\* in either order, leave a store holding exactly S1 and S2.
LateJoinExact ==
  pair # <<>> =>
    /\ pair[1].ab = <<Document, <<>>>>
    /\ pair[1].ba = <<Document, <<>>>>

\* the transfer and the stray deletion were replayed in both orders on a
\* store that held strokes and an image and differed from the transfer
LateJoinWitness ==
  /\ pair # <<>>
  /\ hook.strokes # <<>>
  /\ hook.images # <<>>
  /\ hook.strokes # Document
  /\ StrayId \notin KnownIds(hook)

\* ------------------------------- specification: two pointers on one node
\* P1 draws one stroke with the pen or the line tool, from the surface's
\* origin; a second pointer touches the canvas, gestures are cancelled, an
\* image is pasted and placed.
CaptureTools == {"pen", "line"}

NextPointers ==
  \/ \E pid \in Pointers :
       /\ ~DownTaken(hook) \/ hook.strokeCounter < MaxDrawn
       /\ EvDown(pid, Origin)
  \/ \E pid \in Pointers : \E sp \in ScreenPts : EvMove(pid, sp)
  \/ \E pid \in Pointers : EvUp(pid, Origin)
  \/ EvCancel
  \/ EvTimer
  \/ \E t \in CaptureTools : EvTool(t)
  \/ EvPaste

SpecPointers == Init /\ [][NextPointers]_vars

\* what a handler call that ignores its event leaves alone: capture state,
\* selection state, store content, and nothing emitted
Untouched(h, h2) ==
  /\ h2.emit = <<>>
  /\ Store(h2) = Store(h)
  /\ <<h2.movingStrokes, h2.movingImages>> = <<h.movingStrokes, h.movingImages>>
  /\ <<h2.activePointerId, h2.isDrawing, h2.currentPoints, h2.pendingBatch, h2.batchTimer,
       h2.shapeStart, h2.shapeEnd, h2.currentStrokeId, h2.eraserDeleted>>
       = <<h.activePointerId, h.isDrawing, h.currentPoints, h.pendingBatch, h.batchTimer,
           h.shapeStart, h.shapeEnd, h.currentStrokeId, h.eraserDeleted>>
  /\ <<h2.selectPhase, h2.selectStart, h2.selectEnd, h2.selectedIds, h2.moveStart, h2.moveDelta>>
       = <<h.selectPhase, h.selectStart, h.selectEnd, h.selectedIds, h.moveStart, h.moveDelta>>

\* C15: one gesture at a time.  While a gesture is active a pointer-down from
\* any pointer changes no capture state and no store content and emits no
\* message, and so do a pointer-move and a pointer-up of a pointer that is not
\* the active one.
OneGestureAtATime ==
  pair # <<>> =>
    LET r == pair[1]
    IN /\ (r.op = "onPointerDown" /\ GestureActive(r.before)) => Untouched(r.before, r.after)
       /\ (r.op \in {"onPointerMove", "onPointerUp"} /\ GestureActive(r.before)
             /\ r.arg # r.before.activePointerId) => Untouched(r.before, r.after)

\* ------------------------------------- specification: cancelled gestures
\* P1 draws one stroke with the pen or the line tool and erases, choosing the
\* tool between gestures; any gesture may be cancelled, and a cancel may
\* arrive when none is active.
NextCancel ==
  \/ \E sp \in ScreenPts :
       /\ hook.tool = "eraser" \/ hook.strokeCounter < MaxDrawn
       /\ EvDown(1, sp)
  \/ \E sp \in ScreenPts : EvMove(1, sp)
  \/ \E sp \in ScreenPts : EvUp(1, sp)
  \/ EvCancel
  \/ EvTimer
  \/ \E t \in CaptureTools \cup {"eraser"} : ~hook.isDrawing /\ EvTool(t)

SpecCancel == Init /\ [][NextCancel]_vars

\* C16: cancellation.  onPointerCancel in any capture state leaves no active
\* pointer, no drawing flag, an empty accumulator and network batch, no shape
\* start or end, no pending flush timer and an empty eraser set, emits no
\* message, and no stroke_move or stroke_end follows it before the next
\* gesture starts.
CancelResets ==
  /\ Stepped("onPointerCancel") =>
       /\ hook.activePointerId = NoPointer
       /\ ~hook.isDrawing
       /\ hook.currentPoints = <<>>
       /\ hook.pendingBatch = <<>>
       /\ hook.shapeStart = <<>>
       /\ hook.shapeEnd = <<>>
       /\ ~hook.batchTimer
       /\ hook.eraserDeleted = {}
       /\ hook.emit = <<>>
  /\ gesture.kind = "cancelled" =>
       \A i \in 1..Len(gesture.log) : gesture.log[i].type \notin {"stroke_move", "stroke_end"}

\* a pen capture of two points was cancelled, and the pointer-up of the
\* cancelled pointer arrived afterwards
CancelResetsWitness ==
  /\ gesture.kind = "cancelled"
  /\ Len(gesture.pts) >= 2
  /\ Stepped("onPointerUp")
  /\ pair[1].arg = 1
  /\ ~hook.isDrawing

\* --------------------------------- specification: pen and shape gestures
\* P1 draws with the pen, the line and the rectangle tool and may change the
\* tool at any time, between gestures or during one.
ShapeTools == {"line", "rect"}

NextGesture ==
  \/ \E sp \in ScreenPts : EvDown(1, sp)
  \/ \E sp \in ScreenPts : EvMove(1, sp)
  \/ \E sp \in ScreenPts : EvUp(1, sp)
  \/ EvTimer
  \/ \E t \in {"pen"} \cup ShapeTools : EvTool(t)

SpecGesture == Init /\ [][NextGesture]_vars

\* the observed gesture ran from its pointer-down under one tool of the set,
\* with no event but its own pointer events and the batch timer
CleanGesture(tools) == gesture.kind \in tools /\ gesture.clean

\* C18: freehand commit uses the full accumulator.  During a freehand gesture
\* the accumulator holds every point captured so far, whether or not the
\* batch timer has fired; on gesture end with at least two captured points
\* the stroke added to the store has exactly the captured points, in order.
CommitFullAccumulator ==
  CleanGesture(FreehandTools) =>
    /\ ~gesture.done => hook.currentPoints = gesture.pts
    /\ (gesture.done /\ Len(gesture.pts) >= 2) =>
         /\ Stepped("onPointerUp")
         /\ Len(hook.strokes) = Len(pair[1].before.strokes) + 1
         /\ SubSeq(hook.strokes, 1, Len(hook.strokes) - 1) = pair[1].before.strokes
         /\ hook.strokes[Len(hook.strokes)].points = gesture.pts

\* a pen gesture of at least two points ended after the batch timer had
\* already flushed every captured point
CommitFullAccumulatorWitness ==
  /\ CleanGesture({"pen"})
  /\ gesture.done
  /\ Len(gesture.pts) >= 2
  /\ Stepped("onPointerUp")
  /\ pair[1].before.pendingBatch = <<>>
  /\ hook.strokes # <<>>

\* C19: shape tools.  The pointer-down and the pointer-moves of a line or
\* rectangle gesture emit no message; its pointer-up adds one stroke with
\* exactly the two points [start, end] and emits exactly stroke_start (start
\* point, the stroke's id), one stroke_move with only the end point, and
\* stroke_end, in this order.
ShapeCommit ==
  (pair # <<>> /\ CleanGesture(ShapeTools)) =>
    LET r == pair[1]
    IN /\ r.op \in {"onPointerDown", "onPointerMove"} =>
            r.after.emit = <<>> /\ Store(r.after) = Store(r.before)
       /\ (r.op = "onPointerUp" /\ gesture.done) =>
            LET start == gesture.pts[1]
                end == r.at[1]
                committed == r.after.strokes[Len(r.after.strokes)]
            IN /\ Len(r.after.strokes) = Len(r.before.strokes) + 1
               /\ SubSeq(r.after.strokes, 1, Len(r.before.strokes)) = r.before.strokes
               /\ committed.points = <<start, end>>
               /\ r.after.emit = <<StrokeStart(gesture.kind, start, committed.id),
                                   StrokeMove(<<end>>), StrokeEnd>>

\* a line gesture that was previewed at one point and released at another
\* has ended
ShapeCommitWitness ==
  /\ CleanGesture({"line"})
  /\ gesture.done
  /\ Stepped("onPointerUp")
  /\ pair[1].before.shapeEnd # <<>>
  /\ pair[1].before.shapeEnd # pair[1].at
  /\ Len(hook.emit) = 3

\* ------------------------------------- specification: the object eraser
\* P1 holds strokes A and B and image I, takes the eraser and rubs over the
\* surface; the authority's transfer may bring the objects back at any time,
\* also during a gesture.
Refill == SyncStrokes(Document, <<<<ImageI>>>>)

NextErase ==
  \/ ~hook.isDrawing /\ EvTool("eraser")
  \/ EvDeliver(Refill)
  \/ \E sp \in ScreenPts : hook.tool = "eraser" /\ EvDown(1, sp)
  \/ \E sp \in ScreenPts : hook.tool = "eraser" /\ EvMove(1, sp)
  \/ \E sp \in ScreenPts : hook.tool = "eraser" /\ EvUp(1, sp)

SpecErase == Init /\ [][NextErase]_vars

DeleteKinds == {"stroke_delete", "image_delete"}
DeletedId(m) == IF m.type = "stroke_delete" THEN m.strokeId ELSE m.imageId
Deletions(log) == SelectSeq(log, LAMBDA m : m.type \in DeleteKinds)
DeletedIds(log) == {DeletedId(Deletions(log)[i]) : i \in 1..Len(Deletions(log))}

\* C20: object eraser.  Within one eraser gesture at most one stroke_delete /
\* image_delete message is emitted per object id, also when the pointer
\* crosses the place again or an object with that id has re-entered the
\* store; each deletion removes the whole object from the store and leaves
\* the other objects as they were.
EraseOnce ==
  /\ gesture.kind = "eraser" =>
       \A i, j \in 1..Len(Deletions(gesture.log)) :
         i # j => DeletedId(Deletions(gesture.log)[i]) # DeletedId(Deletions(gesture.log)[j])
  /\ (pair # <<>> /\ pair[1].op \in {"onPointerDown", "onPointerMove", "onPointerUp"}) =>
       LET r == pair[1]
           gone == DeletedIds(r.after.emit)
       IN /\ r.after.emit = Deletions(r.after.emit)
          /\ r.after.strokes = FilterIds(r.before.strokes, gone, FALSE)
          /\ r.after.images = FilterIds(r.before.images, gone, FALSE)

\* during an eraser gesture that had deleted stroke A, A came back with a
\* transfer and the pointer crossed A's place again: nothing was emitted
EraseOnceWitness ==
  /\ gesture.kind = "eraser"
  /\ ~gesture.done
  /\ Stepped("onPointerMove")
  /\ pair[1].at = <<StrokeA.points[1]>>
  /\ StrokeA.id \in IdsOf(pair[1].before.strokes)
  /\ StrokeA.id \in DeletedIds(gesture.log)
  /\ hook.emit = <<>>

\* ------------------------------------- specification: noise on the wire
\* The participants join, P1 draws one stroke, and any connected peer may
\* deliver data that is no DrawMessage, to the host or to a participant.
HostOpenTo(p) == \E c \in 1..Len(conns[p]) : conns[p][c].hostEnd = "open"
ClientOpenTo(p) == \E c \in 1..Len(conns[p]) : conns[p][c].clientEnd = "open"

NoiseInFlight ==
  \E p \in Participants : \E c \in 1..Len(conns[p]) :
    \E i \in 1..Len(conns[p][c].down) : conns[p][c].down[i] \in Noise

\* conn.on('data') on the host, with a datum of any shape from p
HostData(p, raw) ==
  /\ HostOpenTo(p)
  /\ ~NoiseInFlight
  /\ LET r == handleMessage(raw, p)
     IN /\ hooks' = [hooks EXCEPT ![Host] = r.hook]
        /\ conns' = r.w.conns
        /\ handled' = <<[at |-> Host, from |-> p, msg |-> raw, before |-> hooks[Host],
                         sends |-> r.w.sends, threw |-> FALSE]>>
  /\ UNCHANGED <<sync, peer, hostPeer, gesture, selection, pair, sent>>

\* conn.on('data') on participant p, with a datum of any shape
ClientData(p, raw) ==
  /\ ClientOpenTo(p)
  /\ LET r == applyDatum(Enter(hooks[p]), raw)
     IN /\ hooks' = [hooks EXCEPT ![p] = r.hook]
        /\ handled' = <<[at |-> p, from |-> Host, msg |-> raw, before |-> hooks[p],
                         sends |-> <<>>, threw |-> r.threw]>>
  /\ UNCHANGED <<sync, conns, peer, hostPeer, gesture, selection, pair, sent>>

NextNoise ==
  \/ \E p \in Participants : PeerOpen(p)
  \/ \E p \in Participants : \E c \in 1..Len(conns[p]) : ClientOpen(p, c)
  \/ \E p \in Participants : \E c \in 1..Len(conns[p]) : HostOpen(p, c)
  \/ \E p \in Participants : ClientRender(p)
  \/ \E p \in Participants : \E c \in 1..Len(conns[p]) : HostReceive(p, c)
  \/ \E p \in Participants : \E c \in 1..Len(conns[p]) : ClientReceive(p, c)
  \/ DrawDown(Origin)
  \/ DrawMove(Origin)
  \/ DrawUp(Origin)
  \/ DrawBatchTimer
  \/ \E p \in Participants : \E raw \in Noise : HostData(p, raw)
  \/ \E p \in Participants : \E raw \in Noise : ClientData(p, raw)

SpecNoise == Init /\ [][NextNoise]_vars

\* C17: malformed and unknown input.  On the authority and on a participant,
\* an inbound datum that is null, is no object, has no message kind or has an
\* unknown kind leaves the store and the in-progress remote buffer unchanged
\* and raises no error; the authority does not relay a datum without a kind.
NoiseDropped ==
  (handled # <<>> /\ "at" \in DOMAIN handled[1]) =>
    LET r == handled[1]
    IN /\ ~r.threw
       /\ Store(hooks[r.at]) = Store(r.before)
       /\ hooks[r.at].remoteStroke = r.before.remoteStroke
       /\ (r.at = Host /\ "type" \notin DOMAIN r.msg) => r.sends = <<>>

\* ============================================== specification: clearing
\* P1 receives the authority's document, selects with the marquee and drags;
\* at any moment the board is cleared, by P1 (the toolbar's clear) or by a
\* peer (an inbound clear).  pair holds the last clear: gone, the ids of the
\* objects the node knew before it, and left, the store right after it.  The
\* document is transferred only while no clear is observed.
LocalClear ==
  /\ LET h2 == clearCanvas(Enter(hook))
     IN /\ hooks' = [hooks EXCEPT ![Me] = h2]
        /\ pair' = <<[op |-> "clearCanvas", gone |-> KnownIds(hook), left |-> Store(h2)]>>
        /\ gesture' = Taint(gesture, h2)
        /\ selection' = Disturb(selection, h2)
  /\ UNCHANGED <<sync, sent, netVars>>

InboundClear ==
  /\ LET h2 == applyMessage(Enter(hook), ClearMsg)
     IN /\ hooks' = [hooks EXCEPT ![Me] = h2]
        /\ pair' = <<[op |-> "applyMessage", gone |-> KnownIds(hook), left |-> Store(h2)]>>
        /\ gesture' = IF Watched(gesture) THEN gesture ELSE GestureInit
        /\ selection' = Disturb(selection, h2)
  /\ UNCHANGED <<sync, sent, netVars>>

\* the toolbar's cancel of a pending action (Escape)
CancelPending ==
  /\ hook.selectPhase # "idle"
  /\ LET h2 == cancelPendingAction(Enter(hook))
     IN /\ hooks' = [hooks EXCEPT ![Me] = h2]
        /\ gesture' = Taint(gesture, h2)
        /\ selection' = Disturb(selection, h2)
  /\ UNCHANGED <<sync, pair, sent, netVars>>

NextClear ==
  \/ pair = <<>> /\ Deliver(SyncStrokes(Document, <<>>))
  \/ \E t \in {"pen", "select"} : SetTool(t)
  \/ \E sp \in ScreenPts : Selecting /\ PointerDown(1, sp)
  \/ \E sp \in ScreenPts : Selecting /\ PointerMove(1, sp)
  \/ \E sp \in ScreenPts : Selecting /\ PointerUp(1, sp)
  \/ Selecting /\ PointerCancel
  \/ CancelPending
  \/ LocalClear
  \/ InboundClear

SpecClear == Init /\ [][NextClear]_vars

StoredIds(h) == IdsOf(h.strokes) \cup IdsOf(h.images)

\* C21: clear empties the store.  After a node applies a clear (inbound or
\* local), in whatever capture or selection phase it is, its store holds no
\* object, and no object that existed before the clear is in the store
\* afterwards unless an insert or a transfer brought it.
ClearEmpties ==
  pair # <<>> =>
    /\ pair[1].left = <<<<>>, <<>>>>
    /\ StoredIds(hook) \cap pair[1].gone = {}

\* ================================== specification: transfer during a stroke
\* P1 replays the stroke messages of a peer's gesture while the authority's
\* full-state transfers and raster snapshots arrive between them.
RemoteRoom(h) == IF h.remoteStroke = <<>> THEN TRUE ELSE Len(h.remoteStroke[1].points) < MaxPts

NextSupersede ==
  \/ \E pt \in ScreenPts : EvDeliver(StrokeStart("pen", pt, StrayId))
  \/ \E pt \in ScreenPts : RemoteRoom(hook) /\ EvDeliver(StrokeMove(<<pt>>))
  \/ EvDeliver(StrokeEnd)
  \/ EvDeliver(Transfer.msgs[1])
  \/ EvDeliver(SyncStrokes(<<>>, <<>>))
  \/ EvDeliver(Refill)
  \/ EvDeliver(SnapshotMsg)
  \/ EvDeliver(StrayDelete.msgs[1])

SpecSupersede == Init /\ [][NextSupersede]_vars

\* C22: sync_strokes supersedes in-progress remote buffers.  After a node
\* applies sync_strokes no in-progress remote stroke buffer remains, so a
\* stroke_move or stroke_end received next, with no new stroke_start, changes
\* nothing in the store.
SyncSupersedes ==
  (Stepped("applyMessage") /\ pair[1].arg.type = "sync_strokes") =>
    /\ hook.remoteStroke = <<>>
    /\ \A tail \in {<<StrokeEnd>>, <<StrokeMove(<<Origin>>)>>, <<StrokeMove(<<Origin>>), StrokeEnd>>} :
         Store(applyAll(hook, tail)) = Store(hook)

\* ======================================= specification: remote moves
\* P1 holds the authority's document (two strokes and an image); peers move
\* objects, named by id, among them an id P1 does not hold, and delete them.
\* A move is delivered while the stored objects are where the document has
\* them; the next transfer puts them back.
MoveDeltas == ((0 - 1)..1) \X ((0 - 1)..1)
Movable == IdsOf(Document) \cup {ImageI.id, StrayId}

\* every stored object is where the authority's document has it
Unmoved(h) == SeqRange(h.strokes) \subseteq SeqRange(Document) /\ SeqRange(h.images) \subseteq {ImageI}

NextRemoteMove ==
  \/ EvDeliver(Refill)
  \/ \E ids \in SUBSET Movable : \E d \in MoveDeltas :
       /\ Unmoved(hook)
       /\ EvDeliver(ObjectsMove(ids, d[1], d[2]))
  \/ \E id \in IdsOf(Document) : EvDeliver(StrokeDelete(id))
  \/ EvDeliver(ImageDelete(ImageI.id))

SpecRemoteMove == Init /\ [][NextRemoteMove]_vars

\* C23: remote objects_move.  Applying objects_move{objectIds, deltaX, deltaY}
\* translates every stored stroke point and image position whose object id is
\* named by exactly (deltaX, deltaY), leaves every other stored object as it
\* was, and does nothing for ids the store does not hold.
RemoteMoveExact ==
  (Stepped("applyMessage") /\ pair[1].arg.type = "objects_move") =>
    LET m == pair[1].arg
        b == pair[1].before
        a == pair[1].after
    IN /\ Len(a.strokes) = Len(b.strokes)
       /\ Len(a.images) = Len(b.images)
       /\ \A i \in 1..Len(b.strokes) :
            /\ a.strokes[i].id = b.strokes[i].id
            /\ a.strokes[i].tool = b.strokes[i].tool
            /\ Len(a.strokes[i].points) = Len(b.strokes[i].points)
            /\ \A k \in 1..Len(b.strokes[i].points) :
                 a.strokes[i].points[k] =
                   IF b.strokes[i].id \in m.objectIds
                     THEN <<b.strokes[i].points[k][1] + m.deltaX,
                            b.strokes[i].points[k][2] + m.deltaY>>
                     ELSE b.strokes[i].points[k]
       /\ \A i \in 1..Len(b.images) :
            a.images[i] =
              IF b.images[i].id \in m.objectIds
                THEN ImageObject(b.images[i].id, b.images[i].x + m.deltaX,
                                 b.images[i].y + m.deltaY, b.images[i].width, b.images[i].height)
                ELSE b.images[i]
       /\ a.remoteStroke = b.remoteStroke
       /\ a.emit = <<>>

\* a move naming a stored stroke, a stored image and an id the store does
\* not hold, with a stored stroke left unnamed, by a delta that is not zero
RemoteMoveWitness ==
  /\ Stepped("applyMessage")
  /\ pair[1].arg.type = "objects_move"
  /\ pair[1].arg.deltaX # 0
  /\ StrayId \in pair[1].arg.objectIds
  /\ StrayId \notin StoredIds(pair[1].before)
  /\ \E i \in 1..Len(pair[1].before.strokes) : pair[1].before.strokes[i].id \in pair[1].arg.objectIds
  /\ \E i \in 1..Len(pair[1].before.strokes) : pair[1].before.strokes[i].id \notin pair[1].arg.objectIds
  /\ \E i \in 1..Len(pair[1].before.images) : pair[1].before.images[i].id \in pair[1].arg.objectIds
  /\ Store(hook) # Store(pair[1].before)

\* ======================================= specification: the pixel eraser
\* P1 draws with the pen and rubs with the pixel eraser, changing tool
\* between gestures.
PixelTools == {"pen", "pixel_eraser"}

NextPixel ==
  \/ \E t \in PixelTools : ~hook.isDrawing /\ EvTool(t)
  \/ \E sp \in ScreenPts : EvDown(1, sp)
  \/ \E sp \in ScreenPts : EvMove(1, sp)
  \/ \E sp \in ScreenPts : EvUp(1, sp)
  \/ EvTimer

SpecPixel == Init /\ [][NextPixel]_vars

PointerOps == {"onPointerDown", "onPointerMove", "onPointerUp", "flushBatch"}

\* C24: the pixel eraser has no object identity.  A pixel-eraser gesture adds
\* no object to and removes no object from the store, on the node that
\* performs it (no handler call made with the pixel eraser changes the store)
\* and on a node that replays its messages (the replica's store stays empty).
PixelEraserNoObject ==
  /\ (pair # <<>> /\ pair[1].op \in PointerOps /\ pair[1].before.tool = "pixel_eraser") =>
       Store(pair[1].after) = Store(pair[1].before)
  /\ gesture.kind = "pixel_eraser" => Store(Replayed) = <<<<>>, <<>>>>

\* ================================= specification: the selector on its own
\* P1 receives the authority's document once, into its empty store, and from
\* then on only the selector acts: marquee, enter move, drag, release,
\* cancel, tool change (also in the middle of a gesture), Escape.
EvCancelPending ==
  /\ LET h2 == cancelPendingAction(Enter(hook))
     IN /\ Step("cancelPendingAction", 0, <<>>, h2)
        /\ gesture' = Taint(gesture, h2)

NextConserve ==
  \/ pair = <<>> /\ EvDeliver(Refill)
  \/ \E t \in {"pen", "select"} : pair # <<>> /\ EvTool(t)
  \/ \E sp \in ScreenPts : pair # <<>> /\ Selecting /\ EvDown(1, sp)
  \/ \E sp \in ScreenPts : pair # <<>> /\ Selecting /\ EvMove(1, sp)
  \/ \E sp \in ScreenPts : pair # <<>> /\ EvUp(1, sp)
  \/ pair # <<>> /\ EvCancel
  \/ pair # <<>> /\ EvCancelPending

SpecConserve == Init /\ [][NextConserve]_vars

MovingIds(h) == IdsOf(h.movingStrokes) \cup IdsOf(h.movingImages)

SelectorOps ==
  {"onPointerDown", "onPointerMove", "onPointerUp", "onPointerCancel", "setTool",
   "cancelPendingAction"}

\* C25: objects are never created or destroyed implicitly.  Over any sequence
\* of selector events with no delete, clear or transfer in between, the ids
\* of the objects held in the store together with the moving buffer stay
\* those of the document, every selector step keeps them, and no object is
\* both in the store and in the moving buffer.
SelectorConserves ==
  /\ StoredIds(hook) \cap MovingIds(hook) = {}
  /\ pair # <<>> =>
       /\ KnownIds(hook) = IdsOf(Document) \cup {ImageI.id}
       /\ StoreSize(hook) = Len(Document) + 1
  /\ (pair # <<>> /\ pair[1].op \in SelectorOps) =>
       KnownIds(pair[1].after) = KnownIds(pair[1].before)

\* objects are detached in the moving buffer, and a step has just put
\* detached objects back into the store
SelectorConservesWitness ==
  /\ pair # <<>>
  /\ pair[1].op \in SelectorOps
  /\ MovingIds(pair[1].before) # {}
  /\ MovingIds(pair[1].after) = {}
  /\ pair[1].op = "setTool"

\* ======================================== specification: the marquee
\* P1 holds the authority's document and works with the selector while the
\* authority's transfers and a peer's deletions keep arriving.
NextMarquee ==
  \/ EvDeliver(Refill)
  \/ EvDeliver(Transfer.msgs[1])
  \/ \E id \in KnownIds(hook) : EvDeliver(StrokeDelete(id))
  \/ ~hook.isDrawing /\ EvTool("select")
  \/ \E sp \in ScreenPts : Selecting /\ EvDown(1, sp)
  \/ \E sp \in ScreenPts : Selecting /\ EvMove(1, sp)
  \/ \E sp \in ScreenPts : Selecting /\ EvUp(1, sp)
  \/ Selecting /\ EvCancel

SpecMarquee == Init /\ [][NextMarquee]_vars

\* the last step released a marquee
MarqueeReleased ==
  /\ Stepped("onPointerUp")
  /\ pair[1].before.tool = "select"
  /\ pair[1].before.selectPhase = "selecting"
  /\ pair[1].before.isDrawing
  /\ pair[1].arg = pair[1].before.activePointerId

\* the marquee rectangle of the last step: from the press to the release
MarqueeRect ==
  normalizeRect(pair[1].before.selectStart[1][1], pair[1].before.selectStart[1][2],
                pair[1].at[1][1], pair[1].at[1][2])

\* the ids of the stored objects whose bounding box overlaps rect
OverlappedIds(h, rect) ==
  {h.strokes[i].id : i \in {j \in 1..Len(h.strokes) : bboxOverlap(rect, getStrokeBBox(h.strokes[j]))}}
    \cup {h.images[i].id : i \in {j \in 1..Len(h.images) : bboxOverlap(rect, getImageBBox(h.images[j]))}}

\* the program's test for "object o is selected"
Selected(h, o) == o.id \in h.selectedIds

\* C26: marquee release.  When a marquee drag is released, the selected
\* objects are exactly the stored strokes and images whose bounding box
\* overlaps the marquee rectangle and the phase is 'selected'; when none
\* overlaps, the phase is 'idle' and nothing is selected; no message is
\* emitted and no stored object changes.
MarqueeExact ==
  MarqueeReleased =>
    LET b == pair[1].before
        a == pair[1].after
        none == OverlappedIds(b, MarqueeRect) = {}
    IN /\ \A i \in 1..Len(a.strokes) :
            Selected(a, a.strokes[i]) <=> bboxOverlap(MarqueeRect, getStrokeBBox(a.strokes[i]))
       /\ \A i \in 1..Len(a.images) :
            Selected(a, a.images[i]) <=> bboxOverlap(MarqueeRect, getImageBBox(a.images[i]))
       /\ a.selectPhase = IF none THEN "idle" ELSE "selected"
       /\ none => a.selectedIds = {}
       /\ a.emit = <<>>
       /\ Store(a) = Store(b)

\* C27: a raster snapshot discards history.  After a node applies a snapshot
\* message its store holds no strokes and no images.
SnapshotDiscards ==
  (Stepped("applyMessage") /\ pair[1].arg.type = "snapshot") =>
    /\ hook.strokes = <<>>
    /\ hook.images = <<>>

\* a snapshot applied to a store that held strokes and an image
SnapshotDiscardsWitness ==
  /\ Stepped("applyMessage")
  /\ pair[1].arg.type = "snapshot"
  /\ pair[1].before.strokes # <<>>
  /\ pair[1].before.images # <<>>
  /\ Store(hook) = <<<<>>, <<>>>>

\* ======================================= specification: reconnecting
\* P1 joins; its connections to the host open, fail or close, and the retry
\* timeouts fire in any order.
\* conn.on('error') on the client: a connection that has not opened fails
ConnError(p, c) ==
  /\ conns[p][c].clientEnd = "pending"
  /\ conns' = [conns EXCEPT ![p][c].clientEnd = "failed"]
  /\ peer' = [peer EXCEPT ![p] = scheduleRetry([@ EXCEPT !.connectionState = "error"])]
  /\ handled' = <<>>
  /\ UNCHANGED <<hooks, sync, hostPeer, gesture, selection, pair, sent>>

\* conn.on('close') on the client for a connection that failed
FailedClose(p, c) ==
  /\ conns[p][c].clientEnd = "failed"
  /\ conns' = [conns EXCEPT ![p][c].clientEnd = "closed"]
  /\ peer' = [peer EXCEPT ![p] = scheduleRetry([@ EXCEPT !.hostConn = 0,
                                                        !.connectionState = "disconnected"])]
  /\ handled' = <<>>
  /\ UNCHANGED <<hooks, sync, hostPeer, gesture, selection, pair, sent>>

NextRetry ==
  \/ PeerOpen(Me)
  \/ \E c \in 1..Len(conns[Me]) : FailedClose(Me, c)
  \/ \E c \in 1..Len(conns[Me]) : ClientOpen(Me, c)
  \/ \E c \in 1..Len(conns[Me]) : ClientClose(Me, c)
  \/ \E c \in 1..Len(conns[Me]) : ConnError(Me, c)
  \/ RetryWithin(Me, MaxTries)

SpecRetry == Init /\ [][NextRetry]_vars

\* the step schedules a reconnection attempt of p
Schedules(p) == Len(peer'[p].retryTimer) > Len(peer[p].retryTimer)

\* the step opens a connection of p to the host
Opens(p) ==
  \E c \in 1..Len(conns[p]) : conns[p][c].clientEnd # "open" /\ conns'[p][c].clientEnd = "open"

\* C28: bounded reconnection.  The retry counter never exceeds MAX_RETRIES;
\* an attempt is scheduled only while the counter k is below MAX_RETRIES, with
\* delay RETRY_BASE_MS * 2^k, and counts; the counter is reset to 0 whenever
\* a connection to the host opens.
RetryBounded ==
  [][\A p \in Participants :
       /\ peer'[p].retryCount <= MAX_RETRIES
       /\ Schedules(p) =>
            /\ peer[p].retryCount < MAX_RETRIES
            /\ peer'[p].retryCount = peer[p].retryCount + 1
            /\ peer'[p].retryTimer =
                 Append(peer[p].retryTimer, RETRY_BASE_MS * 2^(peer[p].retryCount))
       /\ Opens(p) => peer'[p].retryCount = 0]_vars

\* a connection had opened and was lost; since then five attempts were
\* scheduled and made, the last connection is lost too and no attempt is
\* pending: the counter stands at MAX_RETRIES
RetryBoundedWitness ==
  /\ peer[Me].retryCount = MAX_RETRIES
  /\ peer[Me].retryTimer = <<>>
  /\ conns[Me] # <<>>
  /\ conns[Me][1].clientEnd = "closed"
  /\ \A c \in 1..Len(conns[Me]) : conns[Me][c].clientEnd \in {"failed", "closed"}

\* a stroke_start of the running gesture is open: the freehand pointer-down
\* that emitted it filled the accumulator, the commit or cancel that ends the
\* gesture empties it
StartOpen(h) == h.currentPoints # <<>>

\* in log, message i follows a stroke_start with no stroke_start or stroke_end
\* in between
AfterStart(log, i) ==
  \E j \in 1..(i - 1) :
    /\ log[j].type = "stroke_start"
    /\ \A k \in (j + 1)..(i - 1) : log[k].type \notin {"stroke_start", "stroke_end"}

\* C29: message grammar.  Over any sequence of pointer events, timer firings
\* and tool changes, also in the middle of a gesture, every stroke_move and
\* every stroke_end a handler call emits follows a stroke_start of the same
\* gesture with no other stroke_start or stroke_end in between: either the
\* call itself emitted that stroke_start first, or the stroke was open when
\* the call began and the call emitted no stroke_start or stroke_end before.
MessageGrammar ==
  pair # <<>> =>
    LET log == pair[1].after.emit
    IN \A i \in 1..Len(log) :
         log[i].type \in {"stroke_move", "stroke_end"} =>
           \/ AfterStart(log, i)
           \/ /\ StartOpen(pair[1].before)
              /\ \A k \in 1..(i - 1) : log[k].type \notin {"stroke_start", "stroke_end"}

\* ----------------------------------- specification: two remote gestures
\* The host draws with the pen while it relays a pen gesture of P2: the
\* stroke messages of the two gestures reach P1 over its one connection, each
\* sender's own messages in the order they were sent, the two streams
\* interleaved in any way.  sent.issued records the arrivals.
Senders == {Host, "P2"}
GestureId(s) == <<"s", s, 1>>

Arrivals(s) == SelectSeq(sent.issued, LAMBDA a : a.from = s)
Started(s) == Arrivals(s) # <<>>
Ended(s) == Started(s) /\ Arrivals(s)[Len(Arrivals(s))].msg.type = "stroke_end"

RECURSIVE PointsOf(_)
PointsOf(as) ==
  IF as = <<>> THEN <<>>
  ELSE LET m == as[1].msg
       IN (CASE m.type = "stroke_start" -> <<m.point>>
             [] m.type = "stroke_move" -> m.points
             [] OTHER -> <<>>) \o PointsOf(Tail(as))
OwnPoints(s) == PointsOf(Arrivals(s))

Arrive(s, msg) ==
  /\ hooks' = [hooks EXCEPT ![Me] = applyMessage(Enter(hook), msg)]
  /\ sent' = [sent EXCEPT !.issued = Append(@, [from |-> s, msg |-> msg])]
  /\ UNCHANGED <<sync, gesture, selection, pair, netVars>>

ArriveStart(s, pt) ==
  /\ ~Started(s)
  /\ Arrive(s, StrokeStart("pen", pt, GestureId(s)))

ArriveMove(s, pt) ==
  /\ Started(s)
  /\ ~Ended(s)
  /\ Len(OwnPoints(s)) < MaxPts
  /\ Arrive(s, StrokeMove(<<pt>>))

ArriveEnd(s) ==
  /\ Started(s)
  /\ ~Ended(s)
  /\ Arrive(s, StrokeEnd)

NextInterleave ==
  \/ \E s \in Senders, pt \in ScreenPts : ArriveStart(s, pt)
  \/ \E s \in Senders, pt \in ScreenPts : ArriveMove(s, pt)
  \/ \E s \in Senders : ArriveEnd(s)

SpecInterleave == Init /\ [][NextInterleave]_vars

\* the strokes P1 stores under the id of s's gesture
StoredAs(s) == SelectSeq(hook.strokes, LAMBDA o : o.id = GestureId(s))

\* C30: interleaved remote strokes.  Once the stroke_start, stroke_move and
\* stroke_end messages of the two senders' gestures have all arrived, each
\* sender's in its own order, the receiver holds one StrokeObject per gesture,
\* under that gesture's strokeId and with exactly the points of that gesture.
InterleavedKept ==
  (\A s \in Senders : Ended(s)) =>
    /\ Len(hook.strokes) = Cardinality(Senders)
    /\ \A s \in Senders :
         /\ Len(StoredAs(s)) = 1
         /\ StoredAs(s)[1].points = OwnPoints(s)

\* ------------------------------------------ claims on sender and receiver
\* the strokeIds the observed gesture announced in its stroke_start messages
Announced ==
  {gesture.log[i].strokeId :
     i \in {k \in 1..Len(gesture.log) : gesture.log[k].type = "stroke_start"}}

EndedWithStrokeEnd ==
  /\ gesture.done
  /\ gesture.clean
  /\ gesture.kind \in {"pen"} \cup ShapeTools
  /\ gesture.log # <<>>
  /\ gesture.log[Len(gesture.log)].type = "stroke_end"

\* C31: sender/receiver agreement on object existence.  For a freehand or
\* shape gesture that ended with a stroke_end, a tap of one captured point
\* included, the sender's store holds a StrokeObject with the announced
\* strokeId exactly when a receiver replaying the gesture's messages inserts
\* a StrokeObject with that id.
ExistenceAgrees ==
  EndedWithStrokeEnd =>
    \A id \in Announced :
      id \in IdsOf(hook.strokes) <=> id \in IdsOf(Replayed.strokes)

\* --------------------------------- specification: sending over a flaky link
\* P1's connection to the host opens, closes and is retried while its canvas
\* gives operations to sendDraw; ClientBoard's effects run some time after
\* the connection handler that changed connectionState.  pair records the
\* last sendDraw call: what it handed to broadcastMessage, and hostConnRef
\* and that connection's state at the call.
HostConnOpen(p) ==
  IF peer[p].hostConn = 0 THEN FALSE
  ELSE conns[p][peer[p].hostConn].clientEnd = "open"

Emit(msg) ==
  /\ Len(sent.issued) < MaxOps
  /\ LET s2 == sendDraw(sync[Me], msg)
     IN /\ sync' = [sync EXCEPT ![Me] = s2]
        /\ conns' = [conns EXCEPT ![Me] = clientBroadcast(Me, s2.out)]
        /\ sent' = [sent EXCEPT !.issued = Append(@, msg)]
        /\ pair' = <<[op |-> "sendDraw", arg |-> msg, handed |-> s2.out,
                      queued |-> s2.offlineQueue, open |-> HostConnOpen(Me)]>>
  /\ handled' = <<>>
  /\ UNCHANGED <<hooks, gesture, selection, peer, hostPeer>>

NextDrop ==
  \/ PeerOpen(Me)
  \/ \E c \in 1..Len(conns[Me]) : ClientOpen(Me, c)
  \/ \E c \in 1..Len(conns[Me]) : ClientClose(Me, c)
  \/ RetryFire(Me)
  \/ ClientRender(Me)
  \/ \E msg \in WireOps : Emit(msg)

SpecDrop == Init /\ [][NextDrop]_vars

\* C32: no silent drop on a participant.  Whenever sendDraw hands an
\* operation to the transport instead of enqueueing it, the participant's
\* host connection is open, however connection events, the later update of
\* the connected flag and sendDraw calls interleave; so the operation is
\* either given to an open connection or kept in the offline queue.
NoSilentDrop ==
  pair # <<>> =>
    \/ pair[1].handed # <<>> /\ pair[1].open
    \/ pair[1].handed = <<>> /\ pair[1].queued # <<>>

\* --------------------------------- specification: drawing while offline
\* P1 draws before and between its connections to the host; the queue is
\* flushed and the snapshot is requested when ClientBoard renders the
\* 'connected' state, and the host answers.  pair holds one record: offline
\* the ids of the strokes P1 committed in gestures whose every message was
\* queued, whole whether every message of the running gesture was queued so
\* far, replied whether a sync_strokes was applied since the last of them.
TrackInit == [offline |-> {}, whole |-> FALSE, replied |-> FALSE]
Track == IF pair = <<>> THEN TrackInit ELSE pair[1]

\* P1's canvas handled an event of a gesture; first is its pointer-down,
\* last its pointer-up
CaptureOffline(h2, first, last) ==
  LET s2 == sendDrawEach(sync[Me], h2.emit, <<>>)
      whole == s2.out = <<>> /\ (first \/ Track.whole)
      made == IdsOf(h2.strokes) \ IdsOf(hook.strokes)
      kept == last /\ whole /\ made # {}
  IN /\ hooks' = [hooks EXCEPT ![Me] = h2]
     /\ sync' = [sync EXCEPT ![Me] = s2]
     /\ conns' = [conns EXCEPT ![Me] = clientBroadcast(Me, s2.out)]
     /\ pair' = <<[offline |-> IF kept THEN Track.offline \cup made ELSE Track.offline,
                   whole |-> whole /\ ~last,
                   replied |-> Track.replied /\ ~kept]>>
     /\ handled' = <<>>
     /\ UNCHANGED <<peer, hostPeer, gesture, selection, sent>>

OfflineDown(sp) ==
  /\ DownTaken(hook)
  /\ hook.strokeCounter < MaxDrawn
  /\ CaptureOffline(onPointerDown(hook, 1, sp[1], sp[2]), TRUE, FALSE)

OfflineMove(sp) ==
  /\ EventTaken(hook, 1)
  /\ Len(hook.currentPoints) < MaxPts
  /\ CaptureOffline(onPointerMove(hook, 1, sp[1], sp[2], <<sp>>), FALSE, FALSE)

OfflineUp(sp) ==
  /\ EventTaken(hook, 1)
  /\ CaptureOffline(onPointerUp(hook, 1, sp[1], sp[2]), FALSE, TRUE)

OfflineTimer ==
  /\ hook.batchTimer
  /\ CaptureOffline(batchTimerFired(hook), FALSE, FALSE)

\* conn.on('data') on P1: applyRef.current(msg)
ReplyReceive(c) ==
  /\ conns[Me][c].clientEnd = "open"
  /\ conns[Me][c].down # <<>>
  /\ LET msg == Head(conns[Me][c].down)
     IN /\ hooks' = [hooks EXCEPT ![Me] = applyMessage(Enter(@), msg)]
        /\ pair' = <<[Track EXCEPT !.replied = @ \/ msg.type = "sync_strokes"]>>
  /\ conns' = [conns EXCEPT ![Me][c].down = Tail(@)]
  /\ handled' = <<>>
  /\ UNCHANGED <<sync, peer, hostPeer, gesture, selection, sent>>

NextReconnect ==
  \/ PeerOpen(Me)
  \/ \E c \in 1..Len(conns[Me]) : ClientOpen(Me, c)
  \/ \E c \in 1..Len(conns[Me]) : HostOpen(Me, c)
  \/ \E c \in 1..Len(conns[Me]) : ClientClose(Me, c)
  \/ \E c \in 1..Len(conns[Me]) : HostClose(Me, c)
  \/ RetryFire(Me)
  \/ ClientRender(Me)
  \/ \E c \in 1..Len(conns[Me]) : HostReceive(Me, c)
  \/ \E c \in 1..Len(conns[Me]) : ReplyReceive(c)
  \/ \E sp \in ScreenPts : OfflineDown(sp)
  \/ \E sp \in ScreenPts : OfflineMove(sp)
  \/ \E sp \in ScreenPts : OfflineUp(sp)
  \/ OfflineTimer

SpecReconnect == Init /\ [][NextReconnect]_vars

\* p is connected, its effects have run, its gesture is over, and nothing is
\* queued or in flight between it and the host
Settled(p) ==
  /\ Linked(p)
  /\ peer[p].connectionState = peer[p].prevState
  /\ ~hooks[p].isDrawing /\ ~hooks[p].batchTimer
  /\ sync[p].offlineQueue = <<>>
  /\ \A c \in 1..Len(conns[p]) : conns[p][c].up = <<>> /\ conns[p][c].down = <<>>

\* C33: reconnect ordering on a participant.  The queue is flushed before the
\* snapshot_request is sent, so the authority computes its sync_strokes reply
\* after it applied the queued operations: once the participant has applied
\* the reply and nothing more is in flight, every stroke it completed while
\* offline is still in its store.
OfflineStrokesKept ==
  (Settled(Me) /\ Track.replied) => Track.offline \subseteq IdsOf(hook.strokes)

\* ------------------------------ specification: the authority's registry
\* The participants connect to the host, lose their connections and connect
\* again; the host sees each connection open and close in its own time.
NextRegistry ==
  \/ \E p \in Participants : PeerOpen(p)
  \/ \E p \in Participants : \E c \in 1..Len(conns[p]) : ClientOpen(p, c)
  \/ \E p \in Participants : \E c \in 1..Len(conns[p]) : HostOpen(p, c)
  \/ \E p \in Participants : \E c \in 1..Len(conns[p]) : ClientClose(p, c)
  \/ \E p \in Participants : \E c \in 1..Len(conns[p]) : HostClose(p, c)
  \/ \E p \in Participants : RetryFire(p)

SpecRegistry == Init /\ [][NextRegistry]_vars

\* the participants with a connection that is open at the host
OpenAtHost == {p \in Participants : \E c \in 1..Len(conns[p]) : conns[p][c].hostEnd = "open"}

\* C34: the authority's connection registry.  However connections open and
\* close, a client's new connection opening before the authority sees the old
\* one close included, connectedClients holds no peer id twice, holds exactly
\* the keys of the connection map, and holds every participant that has an
\* open connection to the authority.
RegistryExact ==
  LET list == hostPeer.connectedClients
  IN /\ \A i, j \in 1..Len(list) : list[i] = list[j] => i = j
     /\ {list[i] : i \in 1..Len(list)} = {p \in Participants : hostPeer.connections[p] # 0}
     /\ OpenAtHost \subseteq {list[i] : i \in 1..Len(list)}

\* ------------------------------------------- claims on a cancelled move
\* the objects a hook holds, in the store and detached
AllObjects(h) == <<h.strokes \o h.movingStrokes, h.images \o h.movingImages>>
Detached(h) == <<h.movingStrokes, h.movingImages>>

\* C35: cancelling a move.  Entering the move detaches objects from the store
\* unchanged, and while the move lasts the detached objects stay as they were
\* detached; when the gesture is cancelled in the 'moving' phase every
\* detached object is back in the store with those coordinates, nothing is
\* left detached, the selection is empty, the phase is 'idle', and no
\* message (so no objects_move) is emitted.
CancelMoveRestores ==
  pair # <<>> =>
    LET b == pair[1].before
        a == pair[1].after
    IN /\ (b.selectPhase # "moving" /\ a.selectPhase = "moving") =>
            SameObjects(AllObjects(a), Store(b))
       /\ (b.selectPhase = "moving" /\ a.selectPhase = "moving") =>
            Detached(a) = Detached(b)
       /\ (pair[1].op = "onPointerCancel" /\ b.selectPhase = "moving") =>
            /\ Store(a) = <<b.strokes \o b.movingStrokes, b.images \o b.movingImages>>
            /\ Detached(a) = <<<<>>, <<>>>>
            /\ a.selectedIds = {}
            /\ a.selectPhase = "idle"
            /\ a.emit = <<>>

\* a move that had dragged detached objects away from where they were was
\* cancelled
CancelMoveWitness ==
  /\ Stepped("onPointerCancel")
  /\ pair[1].before.selectPhase = "moving"
  /\ pair[1].before.moveDelta # <<0, 0>>
  /\ pair[1].before.movingStrokes # <<>>
  /\ hook.selectPhase = "idle"

\* -------------------------------------- claims on the snapshot request
\* C36: snapshot_request on the authority.  When the authority has handled a
\* snapshot_request from participant P, it has sent exactly one message, a
\* sync_strokes, to P and to nobody else, and its own store is as it was
\* before the request.
RequestAnswered ==
  (handled # <<>> /\ handled[1].msg.type = "snapshot_request") =>
    LET r == handled[1]
    IN /\ Len(r.sends) = 1
       /\ \A i \in 1..Len(r.sends) :
            r.sends[i].to = r.from /\ r.sends[i].msg.type = "sync_strokes"
       /\ hooks[Host] = r.before

\* ------------------------------------------- claims on the remote buffer
BufferOpen(h) == h.remoteStroke # <<>>

\* C37: remote buffer protocol.  A stroke_move or stroke_end received while
\* no remote buffer is open leaves the store and the buffer as they were; a
\* stroke_start received while a buffer is open replaces it with a buffer of
\* its own point only, so the replaced points never reach the store, which
\* the stroke_start leaves alone; a stroke_move adds its points to the open
\* buffer and to nothing else; a stroke_end with a buffer open inserts exactly
\* one StrokeObject, made of the buffer, and closes the buffer.
RemoteBufferProtocol ==
  Stepped("applyMessage") =>
    LET b == pair[1].before
        a == pair[1].after
        msg == pair[1].arg
    IN /\ (msg.type \in {"stroke_move", "stroke_end"} /\ ~BufferOpen(b)) =>
            Store(a) = Store(b) /\ ~BufferOpen(a)
       /\ msg.type = "stroke_start" =>
            /\ Store(a) = Store(b)
            /\ BufferOpen(a)
            /\ a.remoteStroke[1].points = <<msg.point>>
            /\ a.remoteStroke[1].strokeId = msg.strokeId
       /\ (msg.type = "stroke_move" /\ BufferOpen(b)) =>
            /\ Store(a) = Store(b)
            /\ a.remoteStroke = <<[b.remoteStroke[1] EXCEPT !.points = @ \o msg.points]>>
       /\ (msg.type = "stroke_end" /\ BufferOpen(b)) =>
            /\ a.strokes = Append(b.strokes, StrokeObject(b.remoteStroke[1].strokeId,
                                                          b.remoteStroke[1].tool,
                                                          b.remoteStroke[1].points))
            /\ a.images = b.images
            /\ ~BufferOpen(a)

\* a stroke_start arrived while a buffer of two points was open
RemoteBufferWitness ==
  /\ Stepped("applyMessage")
  /\ pair[1].arg.type = "stroke_start"
  /\ BufferOpen(pair[1].before)
  /\ Len(pair[1].before.remoteStroke[1].points) >= 2
  /\ Len(hook.remoteStroke[1].points) = 1

====
